---- MODULE Spec2Model ----
(***************************************************************************)
(* A model of severed: the per-file extraction pipeline of                 *)
(* packages/severed/transform-file.ts (modifyCodeForEvaluation, transform) *)
(* and the host adapter of packages/severed/index.ts (the cssByFile buffer,*)
(* emitCSS, the transform hook).                                           *)
(*                                                                         *)
(* Text is a sequence of strings, one string per abstract character, so a  *)
(* byte offset of the source is an index into the sequence (0-based, as in *)
(* the code) and a byte range [start, end) is SubSeq(text, start+1, end).  *)
(***************************************************************************)
EXTENDS Integers, Sequences, FiniteSets, TLC

(***************************************************************************)
(* Bounds of the model.                                                    *)
(***************************************************************************)
\* the number of top-level statements of a source file
MaxStmts == 2
\* the number of transform calls the host makes in one behaviour of Spec
MaxCalls == 3
\* the number of resolveId and load calls the host makes in one behaviour
\* of SpecH
MaxAsked == 1

(***************************************************************************)
(* Text helpers.                                                           *)
(***************************************************************************)
\* String.prototype.slice(from, to) with 0-based offsets
Slice(text, from, to) == SubSeq(text, from + 1, to)

RECURSIVE Concat(_)
\* the concatenation of a sequence of texts
Concat(texts) ==
  IF texts = <<>> THEN <<>> ELSE Head(texts) \o Concat(Tail(texts))

\* text.includes(pat)
Includes(text, pat) ==
  \E i \in 0..(Len(text) - Len(pat)) : Slice(text, i, i + Len(pat)) = pat

\* text.startsWith(pat)
StartsWith(text, pat) ==
  Len(text) >= Len(pat) /\ Slice(text, 0, Len(pat)) = pat

\* text.endsWith(pat)
EndsWith(text, pat) ==
  Len(text) >= Len(pat) /\ Slice(text, Len(text) - Len(pat), Len(text)) = pat

(***************************************************************************)
(* MagicString (the edit log of magic-string): the original text cut into  *)
(* chunks; an edit replaces the content of whole chunks, an insertion goes *)
(* to the intro/outro of a chunk or of the string.  An operation that      *)
(* throws yields Thrown(message); applied to what an earlier operation     *)
(* threw, an operation yields that error: the exception ends the block.    *)
(***************************************************************************)
Thrown(msg) == [threw |-> TRUE, message |-> msg]
IsThrown(x) == "threw" \in DOMAIN x

NewChunk(original, start, end) ==
  [start |-> start, end |-> end, content |-> Slice(original, start, end),
   intro |-> <<>>, outro |-> <<>>, edited |-> FALSE]

\* new MagicString(code)
NewMagicString(code) ==
  [original |-> code, intro |-> <<>>, outro |-> <<>>,
   chunks |-> IF code = <<>> THEN <<>> ELSE <<NewChunk(code, 0, Len(code))>>]

\* this.byStart[index] / this.byEnd[index]: the position of the chunk in
\* the chunk list, 0 when there is none
ByStart(ms, index) ==
  LET hits == {k \in 1..Len(ms.chunks) : ms.chunks[k].start = index}
  IN IF hits = {} THEN 0 ELSE CHOOSE k \in hits : TRUE

ByEnd(ms, index) ==
  LET hits == {k \in 1..Len(ms.chunks) : ms.chunks[k].end = index}
  IN IF hits = {} THEN 0 ELSE CHOOSE k \in hits : TRUE

\* Chunk.edit(content, storeName, contentOnly = false)
ChunkEdit(chunk, content) ==
  [chunk EXCEPT !.content = content, !.intro = <<>>, !.outro = <<>>,
                !.edited = TRUE]

\* MagicString._split(index) with _splitChunk and Chunk.split
MSSplit(ms, index) ==
  IF IsThrown(ms) THEN ms
  ELSE IF ByStart(ms, index) # 0 \/ ByEnd(ms, index) # 0 THEN ms
  ELSE
    LET hits == {k \in 1..Len(ms.chunks) :
                   ms.chunks[k].start < index /\ index < ms.chunks[k].end}
    IN IF hits = {} THEN ms
       ELSE
         LET k == CHOOSE x \in hits : TRUE
             c == ms.chunks[k]
         IN IF c.edited /\ c.content # <<>>
            THEN Thrown(<<"Cannot split a chunk that has already been edited">>)
            ELSE
              LET before == [c EXCEPT !.end = index, !.outro = <<>>,
                               !.content = IF c.edited THEN <<>>
                                           ELSE Slice(ms.original, c.start, index)]
                  after == [start |-> index, end |-> c.end,
                            content |-> IF c.edited THEN <<>>
                                        ELSE Slice(ms.original, index, c.end),
                            intro |-> <<>>,
                            outro |-> IF c.edited THEN <<>> ELSE c.outro,
                            edited |-> c.edited]
              IN [ms EXCEPT !.chunks =
                    SubSeq(ms.chunks, 1, k - 1) \o <<before, after>>
                      \o SubSeq(ms.chunks, k + 1, Len(ms.chunks))]

\* the chunks of [start, end) once both ends are split points: the first
\* takes the content, the others are emptied
EditRange(ms, start, end, content) ==
  IF IsThrown(ms) THEN ms
  ELSE [ms EXCEPT !.chunks =
          [k \in 1..Len(ms.chunks) |->
             LET c == ms.chunks[k]
             IN IF c.start = start THEN ChunkEdit(c, content)
                ELSE IF c.start > start /\ c.end <= end THEN ChunkEdit(c, <<>>)
                ELSE c]]

\* MagicString.overwrite(start, end, content)
MSOverwrite(ms, start, end, content) ==
  IF start = end THEN Thrown(<<"Cannot overwrite a zero-length range">>)
  ELSE
    EditRange(MSSplit(MSSplit(ms, start), end), start, end, content)

\* MagicString.remove(start, end)
MSRemove(ms, start, end) ==
  IF start = end THEN ms
  ELSE
    EditRange(MSSplit(MSSplit(ms, start), end), start, end, <<>>)

\* MagicString.prependLeft(index, content)
\* Chunk.prependLeft(content) on the chunk that ends at index, or the
\* intro of the string when there is none
PrependAt(ms, index, content) ==
  IF IsThrown(ms) THEN ms
  ELSE IF ByEnd(ms, index) # 0
  THEN [ms EXCEPT !.chunks[ByEnd(ms, index)].outro = content \o @]
  ELSE [ms EXCEPT !.intro = content \o @]

MSPrependLeft(ms, index, content) ==
  PrependAt(MSSplit(ms, index), index, content)

\* a faulty variant of prepend: the content goes to the end of the text
MSAppend(ms, content) == [ms EXCEPT !.outro = @ \o content]

\* MagicString.prepend(content)
MSPrepend(ms, content) == [ms EXCEPT !.intro = content \o @]

\* MagicString.toString()
MSToString(ms) ==
  ms.intro
    \o Concat([k \in 1..Len(ms.chunks) |->
                 ms.chunks[k].intro \o ms.chunks[k].content \o ms.chunks[k].outro])
    \o ms.outro

(***************************************************************************)
(* Syntax trees.  A node is a record with its type, its parts in source    *)
(* order (a part is a character [s |-> c] or a child node [n |-> node])    *)
(* and |order|, the indices of the child parts in the order of the node's  *)
(* keys, which is the order astray.walk visits them in.  Leaves that no    *)
(* visitor handles (identifiers, literals, template elements) are          *)
(* characters of their parent.                                             *)
(***************************************************************************)
\* const importName = 'css'
importName == <<"c", "s", "s">>
\* const exportPrefix = '__severed_css_'
exportPrefix == <<"__severed_css_">>
\* the character that opens and closes a template literal
Backtick == "BACKTICK"
Tok(c) == [s |-> c]
Kid(node) == [n |-> node]
IsKid(part) == "n" \in DOMAIN part

\* the child parts of a node in source order
KidParts(parts) == SelectSeq([k \in 1..Len(parts) |-> k], LAMBDA k : IsKid(parts[k]))

\* a node whose keys list its children in source order
Node(type, parts) == [type |-> type, parts |-> parts, order |-> KidParts(parts)]

\* a tagged template: tag, optional blank, then the template literal with
\* its first chunk and at most one interpolation ${...} (interp is <<>> or
\* one part); expr describes the interpolated expression for evaluation
TaggedTemplate(tagName, tagType, tagChars, blank, chunk, interp, expr) ==
  [type |-> "TaggedTemplateExpression",
   parts |-> [k \in 1..Len(tagChars) |-> Tok(tagChars[k])]
               \o [k \in 1..Len(blank) |-> Tok(blank[k])]
               \o <<Tok(Backtick)>>
               \o [k \in 1..Len(chunk) |-> Tok(chunk[k])]
               \o (IF interp = <<>> THEN <<>>
                   ELSE <<Tok("${")>> \o interp \o <<Tok("}")>>)
               \o <<Tok(Backtick)>>,
   order |-> IF interp # <<>> /\ IsKid(interp[1])
             THEN <<Len(tagChars) + Len(blank) + Len(chunk) + 3>> ELSE <<>>,
   tagType |-> tagType, tagName |-> tagName,
   raw |-> chunk, nExpressions |-> Len(interp), expr |-> expr]

NoExpr == [kind |-> "none"]
\* css|chunk|
CssStatic(chunk) ==
  TaggedTemplate("css", "Identifier", importName, <<>>, chunk, <<>>, NoExpr)
\* css|chunk${name}| with name an identifier
CssIdent(chunk, name) ==
  TaggedTemplate("css", "Identifier", importName, <<>>, chunk, <<Tok(name)>>,
                 [kind |-> "ident", name |-> name])
\* css|chunk${'value'}| with a string literal
CssLit(chunk, value) ==
  TaggedTemplate("css", "Identifier", importName, <<>>, chunk, <<Tok("'x'")>>,
                 [kind |-> "lit", value |-> value])
\* css|chunk${node}| with an interpolated expression that is a node
CssNode(chunk, node) ==
  TaggedTemplate("css", "Identifier", importName, <<>>, chunk, <<Kid(node)>>,
                 [kind |-> "node"])

ExpressionStatement(expr) == Node("ExpressionStatement", <<Kid(expr), Tok(";")>>)
CallExpression(callee, args) ==
  Node("CallExpression",
       <<Tok(callee), Tok("(")>> \o [k \in 1..Len(args) |-> Kid(args[k])] \o <<Tok(")")>>)

(***************************************************************************)
(* The top-level statements source files are made of.                      *)
(***************************************************************************)
\* const color = 'red';
StmtDecl ==
  [type |-> "VariableDeclaration",
   parts |-> <<Tok("const"), Tok("color"), Tok("="), Tok("'red'"), Tok(";")>>,
   order |-> <<>>, declares |-> "color", value |-> <<"red">>]
\* css|a|;
StmtStatic == ExpressionStatement(CssStatic(<<"a">>))
\* f(css|b\n|);      the chunk holds the escape sequence \n
StmtCall == ExpressionStatement(CallExpression("f", <<CssStatic(<<"b", "\\n">>)>>))
\* const k = css|c${color}|;
StmtDynamic ==
  Node("VariableDeclaration",
       <<Tok("const"), Tok("k"), Tok("="), Kid(CssIdent(<<"c">>, "color")), Tok(";")>>)
\* { if (h) css|d|; }
StmtBlock ==
  Node("BlockStatement",
       <<Tok("{"),
         Kid(Node("IfStatement", <<Tok("if(h)"), Kid(ExpressionStatement(CssStatic(<<"d">>)))>>)),
         Tok("}")>>)
\* for (k in css|a|) css|b|;     meriyah lists a for-in's keys as body, left, right
StmtForIn ==
  [type |-> "ForInStatement",
   parts |-> <<Tok("for(k in"), Kid(CssStatic(<<"a">>)), Tok(")"),
               Kid(ExpressionStatement(CssStatic(<<"b">>)))>>,
   order |-> <<4, 2>>]
\* export const k = css|a|;
StmtExportDecl ==
  [type |-> "ExportNamedDeclaration",
   parts |-> <<Tok("export"), Tok(" "),
               Kid(Node("VariableDeclaration",
                        <<Tok("const"), Tok("k"), Tok("="), Kid(CssStatic(<<"a">>)), Tok(";")>>))>>,
   order |-> <<3>>, declaration |-> 3]
\* export { x };
StmtExportList ==
  [type |-> "ExportNamedDeclaration",
   parts |-> <<Tok("export"), Tok("{"), Tok("x"), Tok("}"), Tok(";")>>,
   order |-> <<>>, declaration |-> 0]
\* export * from './o';
StmtExportAll ==
  Node("ExportAllDeclaration", <<Tok("export"), Tok("*"), Tok("from './o'"), Tok(";")>>)
\* export default function f() { g(css|b|); }
StmtExportDefault ==
  [type |-> "ExportDefaultDeclaration",
   parts |-> <<Tok("export"), Tok("default"), Tok(" "),
               Kid(Node("FunctionDeclaration",
                        <<Tok("function f()"), Tok("{"),
                          Kid(ExpressionStatement(CallExpression("g", <<CssStatic(<<"b">>)>>))),
                          Tok("}")>>))>>,
   order |-> <<4>>, declaration |-> 4]
\* [css|${'x'}|, css|a|, ... (9 times), css|b|];     eleven sites
StmtMany ==
  ExpressionStatement(
    Node("ArrayExpression",
         <<Tok("["), Kid(CssLit(<<>>, <<"x">>))>>
           \o Concat([k \in 1..9 |-> <<Tok(","), Kid(CssStatic(<<"a">>))>>])
           \o <<Tok(","), Kid(CssStatic(<<"b">>)), Tok("]")>>))
\* css|a${css|b|}|;
StmtNested == ExpressionStatement(CssNode(<<"a">>, CssStatic(<<"b">>)))
\* css|a${g()}|;
StmtCallInside == ExpressionStatement(CssNode(<<"a">>, CallExpression("g", <<>>)))
\* css |a|;      a blank between the tag and the template
StmtBlank ==
  ExpressionStatement(
    TaggedTemplate("css", "Identifier", importName, <<" ">>, <<"a">>, <<>>, NoExpr))
\* css| |;     a site whose CSS is blank
StmtEmpty == ExpressionStatement(CssStatic(<<" ">>))
\* styles.css|a|;     the tag is a member expression
StmtMember ==
  ExpressionStatement(
    TaggedTemplate("", "MemberExpression", <<"styles", ".">> \o importName, <<>>, <<"a">>, <<>>, NoExpr))
\* import m from './missing';     an import the sub-bundler cannot resolve
StmtImport ==
  Node("ImportDeclaration", <<Tok("import"), Tok("m"), Tok("from './missing'"), Tok(";")>>)
\* exports.__severed_css_x = 5;     a property put on the exports object of
\* the script the sub-bundler writes
StmtAssign ==
  ExpressionStatement(
    Node("AssignmentExpression",
         <<Tok("exports."), Tok("__severed_css_"), Tok("x"), Tok("="), Tok("5")>>))
\* x ) ) ;     no statement: the parser reports the unexpected token
StmtBad == Node("SyntaxError", <<Tok("x"), Tok(")"), Tok(")"), Tok(";")>>)

Statements ==
  [Decl |-> StmtDecl, Static |-> StmtStatic, Call |-> StmtCall,
   Dynamic |-> StmtDynamic, Block |-> StmtBlock, ForIn |-> StmtForIn,
   ExportDecl |-> StmtExportDecl, ExportList |-> StmtExportList,
   ExportAll |-> StmtExportAll, ExportDefault |-> StmtExportDefault,
   Many |-> StmtMany, Nested |-> StmtNested, CallInside |-> StmtCallInside,
   Blank |-> StmtBlank, Member |-> StmtMember, Import |-> StmtImport,
   Assign |-> StmtAssign, Empty |-> StmtEmpty, Bad |-> StmtBad]

StatementNames == DOMAIN Statements

RECURSIVE SeqsUpTo(_, _)
\* the sequences over S of length at most n
SeqsUpTo(S, n) ==
  IF n = 0 THEN {<<>>}
  ELSE LET shorter == SeqsUpTo(S, n - 1)
       IN shorter \cup {Append(q, x) : q \in shorter, x \in S}

\* a source file is named by the statements it is made of
Files == SeqsUpTo(StatementNames, MaxStmts)

RECURSIVE TextOf(_)
\* the characters of a node, in source order
TextOf(node) ==
  Concat([k \in 1..Len(node.parts) |->
            IF IsKid(node.parts[k]) THEN TextOf(node.parts[k].n)
            ELSE <<node.parts[k].s>>])

\* the program of a file: its statements, one per line
ProgramOf(file) ==
  Node("Program",
       Concat([k \in 1..Len(file) |->
                 (IF k = 1 THEN <<>> ELSE <<Tok("\n")>>) \o <<Kid(Statements[file[k]])>>]))

\* the source text of a file
CodeOf(file) == TextOf(ProgramOf(file))

(***************************************************************************)
(* The parser adapter: parseModule(code, {ranges: true}).  The tree of a   *)
(* file is the tree its text was written from, every node with its         *)
(* absolute range [start, end) and its children in key order.              *)
(***************************************************************************)
Width(node) == Len(TextOf(node))

\* the offset of part k of a node that starts at start
PartStart(node, start, k) ==
  start + Len(Concat([j \in 1..(k - 1) |->
                        IF IsKid(node.parts[j]) THEN TextOf(node.parts[j].n)
                        ELSE <<node.parts[j].s>>]))

RECURSIVE Ranged(_, _)
Ranged(node, start) ==
  [start |-> start,
   end |-> start + Width(node),
   kids |-> [j \in 1..Len(node.order) |->
               Ranged(node.parts[node.order[j]].n, PartStart(node, start, node.order[j]))]]
    @@ node

HasSyntaxError(file) == \E k \in 1..Len(file) : Statements[file[k]].type = "SyntaxError"

\* const parse = (code) => parseModule(code, { ranges: true })
parse(file) ==
  IF HasSyntaxError(file) THEN Thrown(<<"Unexpected token">>)
  ELSE Ranged(ProgramOf(file), 0)

(***************************************************************************)
(* The classifier / rewriter: modifyCodeForEvaluation.                     *)
(***************************************************************************)
Sentinel == <<"'SEVERED_CSS_HERE'">>
PureAnnotation == <<"/* @__PURE__ */ ">>

RECURSIVE Digits(_)
\* the decimal digits of a natural number: String(i)
Digits(i) ==
  LET d == <<"0", "1", "2", "3", "4", "5", "6", "7", "8", "9">>[(i % 10) + 1]
  IN IF i < 10 THEN <<d>> ELSE Append(Digits(i \div 10), d)

\* a faulty variant of findTopLevelStatement: it does not climb
findNoStatement(node, path) == node

\* the chain of ancestors astray records in node.path.parent: findTopLevelStatement
\* climbs from the node while the parent exists and is not the Program
findTopLevelStatement(node, path) ==
  LET chain == <<node>> \o path
      k == CHOOSE x \in 1..Len(chain) :
             /\ (x = Len(chain) \/ chain[x + 1].type = "Program")
             /\ \A y \in 1..(x - 1) : chain[y + 1].type # "Program"
  IN chain[k]

\* the declaration hoisted for site i: export const __severed_css_<i> = <template>;\n
ExportDeclaration(code, i, node) ==
  <<"export const ">> \o exportPrefix \o Digits(i) \o <<" = ">>
    \o Slice(code, node.start + Len(importName), node.end) \o <<";\n">>

\* the state of the walk
WalkInit(code) ==
  [stringForRollup |-> NewMagicString(code),
   templateLiteralLocations |-> <<>>,
   i |-> 0,
   hasDynamicCss |-> FALSE,
   staticCssChunks |-> <<>>,
   skip |-> FALSE,
   error |-> <<>>]

\* the outcome of an edit of stringForRollup: the new state, or the error
Edited(st, ms, skip) ==
  IF IsThrown(ms) THEN [st EXCEPT !.error = ms.message]
  ELSE [st EXCEPT !.stringForRollup = ms, !.skip = skip]

VisitExportNamedDeclaration(node, st) ==
  IF node.declaration # 0
  THEN Edited(st, MSRemove(st.stringForRollup, node.start,
                           PartStart(node, node.start, node.declaration)), FALSE)
  ELSE Edited(st, MSRemove(st.stringForRollup, node.start, node.end), TRUE)

VisitExportAllDeclaration(node, st) ==
  Edited(st, MSRemove(st.stringForRollup, node.start, node.end), TRUE)

\* a faulty variant of the visitor: export default is left in the text
VisitExportDefaultKept(node, st) ==
  Edited(st, st.stringForRollup, FALSE)

VisitExportDefaultDeclaration(node, st) ==
  Edited(st, MSRemove(st.stringForRollup, node.start,
                      PartStart(node, node.start, node.declaration)), FALSE)

\* nearestTopLevelStatement.start || ast.body[0].start
targetLocation(tree, nearestTopLevelStatement) ==
  IF nearestTopLevelStatement.start # 0 THEN nearestTopLevelStatement.start
  ELSE tree.kids[1].start

\* a faulty variant of RecordSite: an interpolation does not make the file
\* dynamic
RecordSiteAsStatic(node, st) ==
  IF st.error # <<>> THEN st
  ELSE [st EXCEPT
          !.templateLiteralLocations = Append(@, <<node.start, node.end>>),
          !.staticCssChunks = Append(@, node.raw),
          !.i = @ + 1]

\* lines 74 to 88: the site is recorded once both edits are made
RecordSite(node, st) ==
  IF st.error # <<>> THEN st
  ELSE [st EXCEPT
          !.templateLiteralLocations = Append(@, <<node.start, node.end>>),
          !.hasDynamicCss = @ \/ node.nExpressions # 0,
          !.staticCssChunks =
            IF node.nExpressions = 0 /\ ~st.hasDynamicCss
            THEN Append(@, node.raw) ELSE @,
          !.i = @ + 1]

\* a faulty variant of the visitor: the tag of the template is not looked at
VisitAnyTaggedTemplate(code, tree, node, path, st) ==
  RecordSite(node,
    Edited(st,
           MSPrependLeft(
             MSOverwrite(st.stringForRollup, node.start, node.end, Sentinel),
             targetLocation(tree, findTopLevelStatement(node, path)),
             ExportDeclaration(code, st.i, node)),
           FALSE))

VisitTaggedTemplateExpression(code, tree, node, path, st) ==
  IF node.tagType # "Identifier" \/ node.tagName # "css" THEN st
  ELSE RecordSite(node,
         Edited(st,
                MSPrependLeft(
                  MSOverwrite(st.stringForRollup, node.start, node.end, Sentinel),
                  targetLocation(tree, findTopLevelStatement(node, path)),
                  ExportDeclaration(code, st.i, node)),
                FALSE))

VisitCallExpression(node, st) ==
  Edited(st, MSPrependLeft(st.stringForRollup, node.start, PureAnnotation), FALSE)

\* the visitor astray.walk calls on entering a node
Visit(code, tree, node, path, st) ==
  LET s0 == [st EXCEPT !.skip = FALSE]
  IN CASE node.type = "ExportNamedDeclaration" -> VisitExportNamedDeclaration(node, s0)
       [] node.type = "ExportAllDeclaration" -> VisitExportAllDeclaration(node, s0)
       [] node.type = "ExportDefaultDeclaration" -> VisitExportDefaultDeclaration(node, s0)
       [] node.type = "TaggedTemplateExpression" ->
            VisitTaggedTemplateExpression(code, tree, node, path, s0)
       [] node.type = "CallExpression" -> VisitCallExpression(node, s0)
       [] OTHER -> s0

RECURSIVE Walk(_, _, _, _, _)
RECURSIVE WalkKids(_, _, _, _, _, _)
\* the children of a node in key order, unless its visitor threw or
\* returned SKIP
Descend(code, tree, node, path, st) ==
  IF st.error # <<>> \/ st.skip THEN st
  ELSE WalkKids(code, tree, node, path, 1, st)

\* astray.walk: the visitor on the node, then its children
Walk(code, tree, node, path, st) ==
  IF st.error # <<>> THEN st
  ELSE Descend(code, tree, node, path, Visit(code, tree, node, path, st))

WalkKids(code, tree, node, path, j, st) ==
  IF j > Len(node.kids) \/ st.error # <<>> THEN st
  ELSE WalkKids(code, tree, node, path, j + 1,
                Walk(code, tree, node.kids[j], <<node>> \o path, st))

\* modifyCodeForEvaluation(code): what it returns, or the error it throws
\* lines 96 to 102: what modifyCodeForEvaluation returns after the walk
ModifiedCode(st) ==
  IF st.error # <<>> THEN Thrown(st.error)
  ELSE [code |-> MSToString(st.stringForRollup),
        stringForRollup |-> st.stringForRollup,
        templateLiteralLocations |-> st.templateLiteralLocations,
        allStaticChunks |-> IF st.hasDynamicCss THEN <<FALSE>>
                            ELSE st.staticCssChunks,
        isStatic |-> ~st.hasDynamicCss]

\* lines 40 to 102, tree being what parse returned or threw
Rewrite(code, tree) ==
  IF IsThrown(tree) THEN tree
  ELSE ModifiedCode(Walk(code, tree, tree, <<>>, WalkInit(code)))

modifyCodeForEvaluation(file) == Rewrite(CodeOf(file), parse(file))

(***************************************************************************)
(* The host adapter's helpers (index.ts): hash, emitCSS, the name-maker.   *)
(***************************************************************************)
\* hash(inputs): the hex digest of SHA-512 over the inputs, an injective
\* encoding of the hashed text (no two texts of the model collide)
hash(inputs) == <<"sha512(">> \o Concat(inputs) \o <<")">>

\* digest.slice(0, n): the first n hex characters of a digest
HexSlice(digest, n) ==
  <<IF n = 7 THEN "hex7" ELSE IF n = 5 THEN "hex5" ELSE "hex">> \o digest

\* const suffix = '.severed.css'
suffix == <<".severed.css">>

\* `severed-${hash([inputCSS]).slice(0, 7)}`
ClassName(inputCSS) == <<"severed-">> \o HexSlice(hash(<<inputCSS>>), 7)

IsBlank(c) == c \in {" ", "\n"}

\* stylis.serialize(stylis.compile(`.${className} {\n${inputCSS}\n}`), ...):
\* the rule without its white space; a rule with nothing in it is dropped
Stylis(className, inputCSS) ==
  LET body == SelectSeq(inputCSS, LAMBDA c : ~IsBlank(c))
  IN IF body = <<>> THEN <<>>
     ELSE <<".">> \o className \o <<"{">> \o body \o <<";}">>

\* what one call of emitCSS appends to cssForThisFile
Fragment(inputCSS) == <<"\n\n">> \o Stylis(ClassName(inputCSS), inputCSS)

\* JSON.stringify(string): quoted, with the characters JSON escapes escaped
JSONStringify(text) ==
  <<"\"">>
    \o [k \in 1..Len(text) |->
          CASE text[k] = "\"" -> "\\\""
            [] text[k] = "\n" -> "\\n"
            [] text[k] = "\\" -> "\\\\"
            [] OTHER -> text[k]]
    \o <<"\"">>

\* the name-maker index.ts passes to transform, called with the CSS
\* accumulated so far
makeCSSFileName(writeCSSFiles, id, cssForThisFile) ==
  IF writeCSSFiles THEN id \o suffix
  ELSE id \o <<"?", "severed", "=">> \o HexSlice(hash(<<cssForThisFile>>), 5)
          \o <<"&", "lang.css">>

(***************************************************************************)
(* The sub-bundler and the evaluator: rollup bundles the derivative        *)
(* program, tree-shaken, into one CommonJS script; requireFromString runs  *)
(* it and returns its exports.  The model reads the derivative text.       *)
(***************************************************************************)
\* the least position >= from of a character of set S in text, 0 if none
FindFrom(text, from, S) ==
  LET hits == {k \in from..Len(text) : text[k] \in S}
  IN IF hits = {} THEN 0 ELSE CHOOSE k \in hits : \A j \in hits : k <= j

\* the value of a string literal
LiteralValue(c) ==
  CASE c = "'red'" -> <<"red">>
    [] c = "'x'" -> <<"x">>
    [] OTHER -> <<>>
IsLiteral(c) == c \in {"'red'", "'x'"}

\* the cooked value of a raw template character (TemplateElement.value.cooked)
Cooked(c) == IF c = "\\n" THEN "\n" ELSE c
Cook(chunk) == [k \in 1..Len(chunk) |-> Cooked(chunk[k])]

\* an import of the bundled program that no resolver resolves
HasUnresolvedImport(program) ==
  \E k \in 1..Len(program) : program[k] = "from './missing'"

\* the positions from..to of the program where a top-level const name is
\* declared with a literal
Declarations(program, name, from, to) ==
  {q \in from..to :
     /\ q + 3 <= Len(program)
     /\ program[q] = "const" /\ program[q + 1] = name
     /\ program[q + 2] = "=" /\ IsLiteral(program[q + 3])}

\* the value of identifier name where the declaration at position at is
\* evaluated: that of a top-level const initialised above it; a const
\* declared below is not initialised yet, any other name is not defined
IdentifierValue(program, at, name) ==
  IF Declarations(program, name, 1, at - 1) # {}
  THEN [value |-> LiteralValue(
                    program[(CHOOSE q \in Declarations(program, name, 1, at - 1) : TRUE) + 3])]
  ELSE IF Declarations(program, name, at, Len(program)) # {}
  THEN Thrown(<<"Cannot access '", name, "' before initialization">>)
  ELSE Thrown(<<name, " is not defined">>)

\* the export declared at position at of the program: its name and the
\* value of its template literal (or the error evaluating it throws)
EvaluateExport(program, at) ==
  LET eq == FindFrom(program, at, {" = "})
      open == FindFrom(program, eq, {Backtick})
      stop == FindFrom(program, open + 1, {Backtick, "${"})
      chunk0 == Cook(SubSeq(program, open + 1, stop - 1))
      name == SubSeq(program, at + 1, eq - 1)
  IN IF program[stop] = Backtick
     THEN [name |-> name, type |-> "string", value |-> chunk0]
     ELSE
       LET e == program[stop + 1]
           close == FindFrom(program, stop + 3, {Backtick})
           chunk1 == Cook(SubSeq(program, stop + 3, close - 1))
           v == IF IsLiteral(e) THEN [value |-> LiteralValue(e)]
                ELSE IdentifierValue(program, at, e)
       IN IF IsThrown(v) THEN v
          ELSE [name |-> name, type |-> "string",
                value |-> chunk0 \o v.value \o chunk1]

RECURSIVE LexLess(_, _)
\* a < b for two strings compared character by character
LexLess(a, b) ==
  IF b = <<>> THEN FALSE
  ELSE IF a = <<>> THEN TRUE
  ELSE IF Head(a) = Head(b) THEN LexLess(Tail(a), Tail(b))
  ELSE LET rank == [c \in {"0", "1", "2", "3", "4", "5", "6", "7", "8", "9", "__severed_css_"} |->
                      CASE c = "0" -> 0 [] c = "1" -> 1 [] c = "2" -> 2 [] c = "3" -> 3
                        [] c = "4" -> 4 [] c = "5" -> 5 [] c = "6" -> 6 [] c = "7" -> 7
                        [] c = "8" -> 8 [] c = "9" -> 9 [] OTHER -> 10]
       IN rank[Head(a)] < rank[Head(b)]

\* rollup writes a chunk's exports sorted by name (Chunk.getExportNames), so
\* Object.entries of the evaluated module lists them in that order
ExportOrder(exports) == SortSeq(exports, LAMBDA x, y : LexLess(x.name, y.name))

\* requireFromString(rollupOutputString, id): the module's exports in the
\* order Object.entries lists them, or the error the script throws
\* the positions of the export declarations of the program, in its order
ExportPositions(program) ==
  SelectSeq([k \in 1..Len(program) |-> k],
            LAMBDA k : program[k] = "export const ")

\* the positions of the assignments exports.<name> = <number>; the
\* assignment is a side effect, so tree-shaking keeps it
AssignedPositions(program) ==
  SelectSeq([k \in 1..Len(program) |-> k], LAMBDA k : program[k] = "exports.")

\* the property the assignment at position at puts on the exports object
EvaluateAssignment(program, at) ==
  [name |-> SubSeq(program, at + 1, FindFrom(program, at, {"="}) - 1),
   type |-> "number",
   value |-> <<program[FindFrom(program, at, {"="}) + 1]>>]

\* the script runs its declarations in order: the first error ends it.
\* The properties the module body assigns come first in Object.entries, the
\* exports the bundler assigns at the end of the script after them
ModuleExports(assigned, evaluated) ==
  LET failed == {j \in 1..Len(evaluated) : IsThrown(evaluated[j])}
  IN IF failed # {}
     THEN evaluated[CHOOSE j \in failed : \A x \in failed : j <= x]
     ELSE [exports |-> assigned \o ExportOrder(evaluated)]

requireFromString(program) ==
  ModuleExports([j \in 1..Len(AssignedPositions(program)) |->
                   EvaluateAssignment(program, AssignedPositions(program)[j])],
                [j \in 1..Len(ExportPositions(program)) |->
                   EvaluateExport(program, ExportPositions(program)[j])])

(***************************************************************************)
(* transform (transform-file.ts): the cheap filter, the classifier, the    *)
(* static or the evaluation path, the substitution and the import line.    *)
(***************************************************************************)
\* a faulty variant of the filter: every text passes
hasCssAlways(code) == TRUE

\* code.includes('css|'), | the backtick
hasCss(code) == Includes(code, importName \o <<Backtick>>)

\* what a call of transform has done so far to the state it shares with its
\* caller: the CSS accumulated by emitCSS, the arguments emitCSS got, the
\* class names it returned, and stringForOutput
Emitting(code) ==
  [cssForThisFile |-> <<>>,
   emitArgs |-> <<>>,
   emitNames |-> <<>>,
   stringForOutput |-> NewMagicString(code),
   error |-> <<>>]

\* a faulty variant of emitCSS: the class name is the hash of all the CSS
\* of the file so far
emitCSSOfBuffer(acc, inputCSS) ==
  [acc EXCEPT !.cssForThisFile = @ \o Fragment(inputCSS),
              !.emitArgs = Append(@, inputCSS),
              !.emitNames = Append(@, ClassName(acc.cssForThisFile \o inputCSS))]

\* a faulty variant of emitCSS: the rule is appended without the separator
emitCSSUnseparated(acc, inputCSS) ==
  [acc EXCEPT !.cssForThisFile = @ \o Stylis(ClassName(inputCSS), inputCSS),
              !.emitArgs = Append(@, inputCSS),
              !.emitNames = Append(@, ClassName(inputCSS))]

\* const className = emitCSS(css): index.ts' emitCSS
emitCSS(acc, inputCSS) ==
  [acc EXCEPT !.cssForThisFile = @ \o Fragment(inputCSS),
              !.emitArgs = Append(@, inputCSS),
              !.emitNames = Append(@, ClassName(inputCSS))]

\* stringForOutput.overwrite(originalLocation[0], originalLocation[1],
\* JSON.stringify(className)) for the class name emitCSS returned last
Overwritten(acc, ms) ==
  IF IsThrown(ms) THEN [acc EXCEPT !.error = ms.message]
  ELSE [acc EXCEPT !.stringForOutput = ms]

\* a faulty variant of the substitution: the k-th class name emitted goes
\* to the k-th recorded range, whatever the number of the export
SubstituteInArrivalOrder(acc, templateLiteralLocations, exportNum) ==
  Overwritten(acc,
    MSOverwrite(acc.stringForOutput,
                templateLiteralLocations[Len(acc.emitNames)][1],
                templateLiteralLocations[Len(acc.emitNames)][2],
                JSONStringify(acc.emitNames[Len(acc.emitNames)])))

Substitute(acc, templateLiteralLocations, exportNum) ==
  IF exportNum + 1 \notin DOMAIN templateLiteralLocations
  THEN [acc EXCEPT !.error = <<"Cannot read properties of undefined">>]
  ELSE Overwritten(acc,
         MSOverwrite(acc.stringForOutput,
                     templateLiteralLocations[exportNum + 1][1],
                     templateLiteralLocations[exportNum + 1][2],
                     JSONStringify(acc.emitNames[Len(acc.emitNames)])))

RECURSIVE StaticPath(_, _, _, _)
\* for (const [exportNum, css] of allStaticChunks.entries())
StaticPath(allStaticChunks, templateLiteralLocations, exportNum, acc) ==
  IF exportNum >= Len(allStaticChunks) \/ acc.error # <<>> THEN acc
  ELSE StaticPath(allStaticChunks, templateLiteralLocations, exportNum + 1,
                  Substitute(emitCSS(acc, allStaticChunks[exportNum + 1]),
                             templateLiteralLocations, exportNum))

RECURSIVE ToNumber(_, _)
\* Number(text) for a text of decimal digits, most significant first; -1
\* stands for NaN, the number of any other text
ToNumber(text, n) ==
  IF text = <<>> THEN n
  ELSE IF \A d \in 0..9 : Digits(d) # <<Head(text)>> THEN -1
  ELSE ToNumber(Tail(text),
                10 * n + (CHOOSE d \in 0..9 : Digits(d) = <<Head(text)>>))

RECURSIVE EvaluationPathUnchecked(_, _, _, _)
\* a faulty variant of EvaluationPath: the type of the value is not looked at
EvaluationPathUnchecked(entries, templateLiteralLocations, k, acc) ==
  IF k > Len(entries) \/ acc.error # <<>> THEN acc
  ELSE IF ~StartsWith(entries[k].name, exportPrefix)
  THEN EvaluationPathUnchecked(entries, templateLiteralLocations, k + 1, acc)
  ELSE EvaluationPathUnchecked(entries, templateLiteralLocations, k + 1,
         Substitute(emitCSS(acc, entries[k].value), templateLiteralLocations,
                    ToNumber(Slice(entries[k].name, Len(exportPrefix),
                                   Len(entries[k].name)), 0)))

RECURSIVE EvaluationPath(_, _, _, _)
\* for (const [exportName, css] of Object.entries(fileExports))
EvaluationPath(entries, templateLiteralLocations, k, acc) ==
  IF k > Len(entries) \/ acc.error # <<>> THEN acc
  ELSE LET exportName == entries[k].name
           css == entries[k]
       IN IF ~StartsWith(exportName, exportPrefix)
          THEN EvaluationPath(entries, templateLiteralLocations, k + 1, acc)
          ELSE LET exportNum == ToNumber(Slice(exportName, Len(exportPrefix),
                                               Len(exportName)), 0)
               IN IF css.type # "string"
                  THEN [acc EXCEPT !.error = <<"expected css to evaluate to string">>]
                  ELSE EvaluationPath(entries, templateLiteralLocations, k + 1,
                         Substitute(emitCSS(acc, css.value),
                                    templateLiteralLocations, exportNum))

\* stringForOutput.prepend(`import "${makeCSSFileName()}"\n`) and the value
\* transform returns
Finish(acc, cssFileName) ==
  [code |-> MSToString(MSPrepend(acc.stringForOutput,
                                 <<"import \"">> \o cssFileName \o <<"\"\n">>)),
   map |-> "SourceMap"]

(***************************************************************************)
(* The plugin instance (index.ts): the options, the buffer cssByFile, the  *)
(* assets handed to the host, and the calls of the transform hook.  A call *)
(* runs up to its next await in one step.                                  *)
(***************************************************************************)
VARIABLES opts, cssByFile, emitted, calls, asked

vars == <<opts, cssByFile, emitted, calls, asked>>

\* process.cwd(): the working directory of the build
cwd == <<"/", "w">>

\* the module ids the host asks about, character by character:
\* /w/a2.js, /w/b.tsx and /w/c.vue
IdA == cwd \o <<"/", "a", "2", ".", "j", "s">>
IdB == cwd \o <<"/", "b", ".", "t", "s", "x">>
IdC == cwd \o <<"/", "c", ".", "v", "u", "e">>
Ids == {IdA, IdB, IdC}

\* the files the host hands to the plugin
HostFiles ==
  {<<"Static">>, <<"Decl", "Dynamic">>, <<"Dynamic">>, <<"Decl">>,
   <<"Bad", "Static">>, <<"Import", "Dynamic">>, <<"Call", "Static">>}

\* a promise: pending, or settled with a value or with an error
Pending == [kind |-> "pending", code |-> <<>>, message |-> <<>>]
Resolved(kind, code) == [kind |-> kind, code |-> code, message |-> <<>>]
Rejected(message) == [kind |-> "threw", code |-> <<>>, message |-> message]

\* cssByFile.delete(id)
MapDelete(map, id) == [x \in DOMAIN map \ {id} |-> map[x]]
\* a faulty variant of set: the CSS is appended to the entry there is
MapSetAppending(map, id, css) ==
  (id :> (IF id \in DOMAIN map THEN map[id] ELSE <<>>) \o css) @@ map
\* cssByFile.set(id, css)
MapSet(map, id, css) == (id :> css) @@ map
\* cssByFile.get(id), <<>> standing for undefined
MapGet(map, id) == IF id \in DOMAIN map THEN <<map[id]>> ELSE <<>>

\* a faulty variant of Handled: the hook has no whitelist
HandledAny(id) == Len(id) >= 0

\* id.endsWith('.js') || id.endsWith('.ts') || id.endsWith('.tsx')
Handled(id) ==
  \/ EndsWith(id, <<".", "j", "s">>)
  \/ EndsWith(id, <<".", "t", "s">>)
  \/ EndsWith(id, <<".", "t", "s", "x">>)

\* a call of the hook that has not yet reached transform
NewCall(id, file) ==
  [id |-> id, file |-> file, pc |-> "returned",
   before |-> MapGet(cssByFile, id),
   parsed |-> FALSE, bundled |-> FALSE, evaluated |-> FALSE,
   modifiedCode |-> <<>>,
   acc |-> Emitting(CodeOf(file)),
   cssFileName |-> <<>>,
   transformResult |-> Pending,
   returned |-> Resolved("undefined", <<>>)]

\* transform settles: with null, with an error, or with the code
Settle(call, result) ==
  [call EXCEPT !.pc = "settled", !.transformResult = result, !.returned = Pending]

\* the end of transform after its loop: the error of the loop, or the
\* import line prepended with the name the name-maker returns now
Named(call, acc, cssFileName) ==
  [Settle(call, Resolved("value", Finish(acc, cssFileName).code))
     EXCEPT !.acc = acc, !.cssFileName = cssFileName]

\* a faulty variant of Conclude: the name is made before any CSS is emitted
ConcludeNamedFirst(call, acc) ==
  IF acc.error # <<>>
  THEN [Settle(call, Rejected(acc.error)) EXCEPT !.acc = acc]
  ELSE Named(call, acc,
             makeCSSFileName(opts.writeCSSFiles, call.id, call.acc.cssForThisFile))

Conclude(call, acc) ==
  IF acc.error # <<>>
  THEN [Settle(call, Rejected(acc.error)) EXCEPT !.acc = acc]
  ELSE Named(call, acc,
             makeCSSFileName(opts.writeCSSFiles, call.id, acc.cssForThisFile))

\* transform from its first line to its first await, or to its end
\* a faulty variant of Classified: the substitutions are made on the edit
\* log of the derivative program
ClassifiedOnDerivative(call, modifiedCode) ==
  IF Len(modifiedCode.templateLiteralLocations) = 0
  THEN Settle(call, Resolved("null", <<>>))
  ELSE IF modifiedCode.isStatic
  THEN Conclude(call, StaticPath(modifiedCode.allStaticChunks,
                                 modifiedCode.templateLiteralLocations, 0,
                                 [call.acc EXCEPT !.stringForOutput =
                                    modifiedCode.stringForRollup]))
  ELSE [call EXCEPT !.pc = "rollup", !.returned = Pending]

\* a faulty variant of Classified: there is no fast path, every file with a
\* site goes to the sub-bundler
ClassifiedWithoutFastPath(call, modifiedCode) ==
  IF Len(modifiedCode.templateLiteralLocations) = 0
  THEN Settle(call, Resolved("null", <<>>))
  ELSE [call EXCEPT !.pc = "rollup", !.returned = Pending]

\* lines 118 to 134 of transform, modifiedCode being what the classifier
\* returned
Classified(call, modifiedCode) ==
  IF Len(modifiedCode.templateLiteralLocations) = 0
  THEN Settle(call, Resolved("null", <<>>))
  ELSE IF modifiedCode.isStatic
  THEN Conclude(call, StaticPath(modifiedCode.allStaticChunks,
                                 modifiedCode.templateLiteralLocations,
                                 0, call.acc))
  ELSE [call EXCEPT !.pc = "rollup", !.returned = Pending]

\* a faulty variant of Classify: the error of the classifier is wrapped
\* like that of the evaluation
ClassifyWrapping(call, modifiedCode) ==
  IF IsThrown(modifiedCode)
  THEN Settle(call, Rejected(<<"Failed to evaluate ", Backtick>> \o call.id
                               \o <<Backtick, " while extracting css: ">>
                               \o modifiedCode.message))
  ELSE Classified([call EXCEPT !.modifiedCode = <<modifiedCode>>], modifiedCode)

\* line 117 of transform: the classifier throws, or returns modifiedCode
Classify(call, modifiedCode) ==
  IF IsThrown(modifiedCode) THEN Settle(call, Rejected(modifiedCode.message))
  ELSE Classified([call EXCEPT !.modifiedCode = <<modifiedCode>>], modifiedCode)

TransformStart(call) ==
  IF ~hasCss(CodeOf(call.file)) THEN Settle(call, Resolved("null", <<>>))
  ELSE Classify([call EXCEPT !.parsed = TRUE],
                modifyCodeForEvaluation(call.file))

\* a faulty variant of PluginTransform: the entry of the id is not deleted
\* before transform starts
PluginTransformKeeping(id, file, maxCalls) ==
  /\ Len(calls) < maxCalls
  /\ calls' = Append(calls, IF Handled(id) THEN TransformStart(NewCall(id, file))
                            ELSE NewCall(id, file))
  /\ UNCHANGED <<opts, cssByFile, emitted, asked>>

\* the host calls the transform hook with the text file for module id
PluginTransform(id, file, maxCalls) ==
  /\ Len(calls) < maxCalls
  /\ IF ~Handled(id)
     THEN /\ calls' = Append(calls, NewCall(id, file))
          /\ UNCHANGED cssByFile
     ELSE /\ cssByFile' = MapDelete(cssByFile, id)
          /\ calls' = Append(calls, TransformStart(NewCall(id, file)))
  /\ UNCHANGED <<opts, emitted, asked>>

\* await rollup.rollup(...): the bundle is built, or an import of the
\* derivative program is not resolved
RollupDone(c) ==
  /\ calls[c].pc = "rollup"
  /\ calls' = [calls EXCEPT ![c] =
       IF HasUnresolvedImport(calls[c].modifiedCode[1].code)
       THEN Settle([calls[c] EXCEPT !.bundled = TRUE],
                   Rejected(<<"Could not resolve ", "'./missing'">>))
       ELSE [calls[c] EXCEPT !.bundled = TRUE, !.pc = "generate"]]
  /\ UNCHANGED <<opts, cssByFile, emitted, asked>>

\* await build.generate(...), then the evaluation and the loop over the
\* exports
\* lines 178 to 208 of transform, fileExports being what requireFromString
\* returned or threw
\* a faulty variant of Evaluated: the error of the script is thrown as it is
EvaluatedUnwrapped(call, fileExports) ==
  IF IsThrown(fileExports) THEN Settle(call, Rejected(fileExports.message))
  ELSE Conclude(call,
                EvaluationPath(fileExports.exports,
                               call.modifiedCode[1].templateLiteralLocations,
                               1, call.acc))

Evaluated(call, fileExports) ==
  IF IsThrown(fileExports)
  THEN Settle(call, Rejected(<<"Failed to evaluate ", Backtick>> \o call.id
                               \o <<Backtick, " while extracting css: ">>
                               \o fileExports.message))
  ELSE Conclude(call,
                EvaluationPath(fileExports.exports,
                               call.modifiedCode[1].templateLiteralLocations,
                               1, call.acc))

\* a faulty variant of GenerateDone: cssForThisFile is one variable of the
\* plugin, which holds what the call started last has accumulated
GenerateDoneSharing(c) ==
  /\ calls[c].pc = "generate"
  /\ calls' = [calls EXCEPT ![c] =
       Evaluated([calls[c] EXCEPT !.evaluated = TRUE,
                                  !.acc.cssForThisFile =
                                     calls[Len(calls)].acc.cssForThisFile],
                 requireFromString(calls[c].modifiedCode[1].code))]
  /\ UNCHANGED <<opts, cssByFile, emitted, asked>>

GenerateDone(c) ==
  /\ calls[c].pc = "generate"
  /\ calls' = [calls EXCEPT ![c] =
       Evaluated([calls[c] EXCEPT !.evaluated = TRUE],
                 requireFromString(calls[c].modifiedCode[1].code))]
  /\ UNCHANGED <<opts, cssByFile, emitted, asked>>

\* a faulty variant of PluginResume: the CSS is stored and the asset
\* emitted whatever transform settled with
PluginResumeStoresAlways(c) ==
  /\ calls[c].pc = "settled"
  /\ cssByFile' = MapSet(cssByFile, calls[c].id, calls[c].acc.cssForThisFile)
  /\ emitted' =
       IF opts.writeCSSFiles
       THEN Append(emitted, [type |-> "asset",
                             fileName |-> calls[c].id \o suffix,
                             source |-> calls[c].acc.cssForThisFile])
       ELSE emitted
  /\ calls' = [calls EXCEPT ![c].pc = "returned",
                            ![c].returned = calls[c].transformResult]
  /\ UNCHANGED <<opts, asked>>

\* a faulty variant of PluginResume: the asset is named by the module id
PluginResumeNamesById(c) ==
  /\ calls[c].pc = "settled"
  /\ IF calls[c].transformResult.kind = "value"
     THEN /\ cssByFile' = MapSet(cssByFile, calls[c].id, calls[c].acc.cssForThisFile)
          /\ emitted' =
               IF opts.writeCSSFiles
               THEN Append(emitted, [type |-> "asset",
                                     fileName |-> calls[c].id,
                                     source |-> calls[c].acc.cssForThisFile])
               ELSE emitted
     ELSE UNCHANGED <<cssByFile, emitted>>
  /\ calls' = [calls EXCEPT ![c].pc = "returned",
                            ![c].returned = calls[c].transformResult]
  /\ UNCHANGED <<opts, asked>>

\* the hook after await transform(...): lines 61 to 72 of index.ts
PluginResume(c) ==
  /\ calls[c].pc = "settled"
  /\ LET call == calls[c]
         transformResult == call.transformResult
     IN IF transformResult.kind = "value"
        THEN /\ cssByFile' = MapSet(cssByFile, call.id, call.acc.cssForThisFile)
             /\ emitted' =
                  IF opts.writeCSSFiles
                  THEN Append(emitted, [type |-> "asset",
                                        fileName |-> call.id \o suffix,
                                        source |-> call.acc.cssForThisFile])
                  ELSE emitted
             /\ calls' = [calls EXCEPT ![c].pc = "returned",
                                       ![c].returned = transformResult]
        ELSE /\ calls' = [calls EXCEPT ![c].pc = "returned",
                                       ![c].returned = transformResult]
             /\ UNCHANGED <<cssByFile, emitted>>
  /\ UNCHANGED <<opts, asked>>

(***************************************************************************)
(* The asset path of push mode in the adapter that flattens the module id  *)
(* (distFileName): the id relative to the working directory, every run of  *)
(* characters the pattern [^a-zA-Z] matches replaced by a dash.            *)
(***************************************************************************)
\* the characters the class a-zA-Z of the pattern matches
Letters ==
  {"a", "b", "c", "d", "e", "f", "g", "h", "i", "j", "k", "l", "m", "n",
     "o", "p", "q", "r", "s", "t", "u", "v", "w", "x", "y", "z",
     "A", "B", "C", "D", "E", "F", "G", "H", "I", "J", "K", "L", "M", "N",
     "O", "P", "Q", "R", "S", "T", "U", "V", "W", "X", "Y", "Z"}

\* path.relative(from, to) for a path to that is below from, or relative
PathRelative(from, to) ==
  CASE StartsWith(to, from \o <<"/">>) -> SubSeq(to, Len(from) + 2, Len(to))
    [] to = <<>> \/ to[1] # "/" -> to

RECURSIVE ReplaceRuns(_, _)
\* text.replace(/[^a-zA-Z]+/g, '-'); inRun: the character before text was
\* part of a match
ReplaceRuns(text, inRun) ==
  IF text = <<>> THEN <<>>
  ELSE IF Head(text) \in Letters THEN <<Head(text)>> \o ReplaceRuns(Tail(text), FALSE)
  ELSE (IF inRun THEN <<>> ELSE <<"-">>) \o ReplaceRuns(Tail(text), TRUE)

\* const distFileName =
\*   path.relative(process.cwd(), id).replace(/[^a-zA-Z]+/g, '-') + suffix
distFileName(id) == ReplaceRuns(PathRelative(cwd, id), FALSE) \o suffix

(***************************************************************************)
(* The hooks resolveId and load (index.ts): what the host gets for an id.  *)
(***************************************************************************)
\* id.indexOf('?'): the offset of the first question mark, -1 if none
IndexOfQuery(id) ==
  LET hits == {k \in 1..Len(id) : id[k] = "?"}
  IN IF hits = {} THEN -1
     ELSE (CHOOSE k \in hits : \A j \in hits : k <= j) - 1

\* text.slice(from) for an offset from >= -1
SliceFrom(text, from) ==
  IF from < 0 THEN SubSeq(text, Len(text) + from + 1, Len(text))
  ELSE SubSeq(text, from + 1, Len(text))

RECURSIVE SplitOn(_, _)
\* text.split(sep)
SplitOn(text, sep) ==
  IF FindFrom(text, 1, {sep}) = 0 THEN <<text>>
  ELSE <<SubSeq(text, 1, FindFrom(text, 1, {sep}) - 1)>>
         \o SplitOn(SubSeq(text, FindFrom(text, 1, {sep}) + 1, Len(text)), sep)

\* the name and the value of one name=value pair of a query
PairName(pair) ==
  IF FindFrom(pair, 1, {"="}) = 0 THEN pair
  ELSE SubSeq(pair, 1, FindFrom(pair, 1, {"="}) - 1)
PairValue(pair) ==
  IF FindFrom(pair, 1, {"="}) = 0 THEN <<>>
  ELSE SubSeq(pair, FindFrom(pair, 1, {"="}) + 1, Len(pair))

\* the pairs of new URLSearchParams(init): a leading question mark is
\* dropped, the pairs are separated by ampersands, empty pairs are skipped
SearchParams(init) ==
  SelectSeq(SplitOn(IF init # <<>> /\ init[1] = "?" THEN Tail(init) ELSE init, "&"),
            LAMBDA pair : pair # <<>>)

\* params.get(name): <<value>> of the first pair of that name, <<>> for null
ParamsGet(params, name) ==
  IF SelectSeq(params, LAMBDA pair : PairName(pair) = name) = <<>> THEN <<>>
  ELSE <<PairValue(SelectSeq(params, LAMBDA pair : PairName(pair) = name)[1])>>

\* const severedParam = new URLSearchParams(id.slice(id.indexOf('?'))).get('severed')
severedParam(id) ==
  ParamsGet(SearchParams(SliceFrom(id, IndexOfQuery(id))), <<"severed">>)

\* a string, or null or undefined, taken as a condition: <<>> stands for
\* null and undefined, <<text>> for a string
Truthy(value) == value # <<>> /\ value[1] # <<>>

\* path.join(a, b) for paths without . and .. segments
PathJoin(a, b) ==
  a \o <<"/">> \o (IF b # <<>> /\ b[1] = "/" THEN Tail(b) ELSE b)

\* what a hook hands to the host: nothing (undefined), or a value
Nothing == [kind |-> "undefined", id |-> <<>>, text |-> <<>>]

\* a faulty variant of resolveId: ids with the suffix are claimed in both
\* modes, ids with the query in none
resolveIdBySuffix(writeCSSFiles, id) ==
  IF EndsWith(id, suffix)
  THEN [kind |-> IF writeCSSFiles THEN "external" ELSE "id", id |-> id, text |-> <<>>]
  ELSE Nothing

\* async resolveId(id)
resolveId(writeCSSFiles, id) ==
  IF writeCSSFiles
  THEN IF EndsWith(id, suffix)
       THEN [kind |-> "external", id |-> id, text |-> <<>>]
       ELSE Nothing
  ELSE IF Truthy(severedParam(id))
       THEN [kind |-> "id", id |-> id, text |-> <<>>]
       ELSE Nothing

\* a || b of two results of cssByFile.get
OrElse(a, b) == IF Truthy(a) THEN a ELSE b

\* the text load answers with, <<>> standing for undefined
Answer(value) ==
  IF value = <<>> THEN Nothing
  ELSE [kind |-> "text", id |-> <<>>, text |-> value[1]]

\* a faulty variant of load: the mode is not looked at
loadInAnyMode(writeCSSFiles, map, id) ==
  IF ~Truthy(severedParam(id)) THEN Nothing
  ELSE Answer(OrElse(MapGet(map, Slice(id, 0, IndexOfQuery(id))),
                     MapGet(map, PathJoin(cwd, Slice(id, 0, IndexOfQuery(id))))))

\* a faulty variant of load: the text is served only to the id that carries
\* the hash of the text
loadCheckingHash(writeCSSFiles, map, id) ==
  IF writeCSSFiles THEN Nothing
  ELSE IF ~Truthy(severedParam(id)) THEN Nothing
  ELSE IF OrElse(MapGet(map, Slice(id, 0, IndexOfQuery(id))),
                 MapGet(map, PathJoin(cwd, Slice(id, 0, IndexOfQuery(id))))) = <<>>
  THEN Nothing
  ELSE IF severedParam(id)[1]
            # HexSlice(hash(OrElse(MapGet(map, Slice(id, 0, IndexOfQuery(id))),
                                   MapGet(map, PathJoin(cwd, Slice(id, 0, IndexOfQuery(id)))))), 5)
  THEN Nothing
  ELSE Answer(OrElse(MapGet(map, Slice(id, 0, IndexOfQuery(id))),
                     MapGet(map, PathJoin(cwd, Slice(id, 0, IndexOfQuery(id))))))

\* async load(id)
load(writeCSSFiles, map, id) ==
  IF writeCSSFiles THEN Nothing
  ELSE IF ~Truthy(severedParam(id)) THEN Nothing
  ELSE Answer(OrElse(MapGet(map, Slice(id, 0, IndexOfQuery(id))),
                     MapGet(map, PathJoin(cwd, Slice(id, 0, IndexOfQuery(id))))))

\* the ids the host may ask the hooks about for module id: the id itself,
\* the asset path of push mode, and the id with queries of several shapes
Variants(id) ==
  {id,
   id \o suffix,
   id \o <<"?", "severed", "=", "&", "lang.css">>,
   id \o <<"?", "lang.css">>,
   id \o <<"?", "v", "=", "1", "&", "severed", "=", "x">>,
   id \o <<"?", "severed", "=", "x">> \o suffix,
   id \o <<"?", "v", "=", "1", "?", "severed", "=", "x">>,
   SliceFrom(id, Len(cwd) + 1) \o <<"?", "severed", "=", "x", "&", "lang.css">>}

\* the ids the host asks about: those above and the specifiers of the
\* imports the transformed files got
AskedIds ==
  UNION {Variants(id) : id \in Ids}
    \cup {calls[c].cssFileName : c \in {x \in DOMAIN calls : calls[x].cssFileName # <<>>}}

\* the host calls the resolveId hook
PluginResolveId(id) ==
  /\ Len(asked) < MaxAsked
  /\ asked' = Append(asked, [hook |-> "resolveId", id |-> id,
                             result |-> resolveId(opts.writeCSSFiles, id)])
  /\ UNCHANGED <<opts, cssByFile, emitted, calls>>

\* the host calls the load hook
PluginLoad(id) ==
  /\ Len(asked) < MaxAsked
  /\ asked' = Append(asked, [hook |-> "load", id |-> id,
                             result |-> load(opts.writeCSSFiles, cssByFile, id)])
  /\ UNCHANGED <<opts, cssByFile, emitted, calls>>

Init ==
  /\ opts \in [writeCSSFiles : BOOLEAN]
  /\ cssByFile = <<>>
  /\ emitted = <<>>
  /\ calls = <<>>
  /\ asked = <<>>

\* the plugin under a host: up to MaxCalls calls of the hook, interleaved at
\* their awaits
Next ==
  \/ \E id \in Ids, file \in HostFiles : PluginTransform(id, file, MaxCalls)
  \/ \E c \in DOMAIN calls : RollupDone(c)
  \/ \E c \in DOMAIN calls : GenerateDone(c)
  \/ \E c \in DOMAIN calls : PluginResume(c)

Spec == Init /\ [][Next]_vars

\* one call of the hook on any file of Files
NextT ==
  \/ \E file \in Files : PluginTransform(IdA, file, 1)
  \/ \E c \in DOMAIN calls : RollupDone(c)
  \/ \E c \in DOMAIN calls : GenerateDone(c)
  \/ \E c \in DOMAIN calls : PluginResume(c)

SpecT == Init /\ [][NextT]_vars

\* the plugin under a host that transforms one module and asks the hooks
\* resolveId and load about ids
NextH ==
  \/ \E id \in Ids, file \in HostFiles : PluginTransform(id, file, 1)
  \/ \E c \in DOMAIN calls : RollupDone(c)
  \/ \E c \in DOMAIN calls : GenerateDone(c)
  \/ \E c \in DOMAIN calls : PluginResume(c)
  \/ \E id \in AskedIds : PluginResolveId(id)
  \/ \E id \in AskedIds : PluginLoad(id)

SpecH == Init /\ [][NextH]_vars

\* path.join(process.cwd(), id) for the module id /w/a2.js: /w/w/a2.js,
\* the id of another module
IdW == PathJoin(cwd, IdA)

\* no call of the hook on id is in flight
Quiet(id) == \A c \in DOMAIN calls : calls[c].id = id => calls[c].pc = "returned"

\* the ids a host loads for the two modules: the specifiers the
\* transformed files got, and the module ids with another hash
LoadIds ==
  {id \o <<"?", "severed", "=", "x", "&", "lang.css">> : id \in {IdA, IdW}}
    \cup {calls[c].cssFileName : c \in {x \in DOMAIN calls : calls[x].cssFileName # <<>>}}

\* the plugin under a host that never transforms one module twice at the
\* same time: two calls of the hook on /w/a2.js and /w/w/a2.js, and a load
NextL ==
  \/ \E id \in {IdA, IdW}, file \in HostFiles :
       Quiet(id) /\ PluginTransform(id, file, 2)
  \/ \E c \in DOMAIN calls : RollupDone(c)
  \/ \E c \in DOMAIN calls : GenerateDone(c)
  \/ \E c \in DOMAIN calls : PluginResume(c)
  \/ \E id \in LoadIds : PluginLoad(id)

SpecL == Init /\ [][NextL]_vars
(***************************************************************************)
(* What the properties below speak of: the css sites of a file, read off   *)
(* its syntax tree in source order, and the CSS value of a site.           *)
(***************************************************************************)
\* a css site: a tagged template whose tag is the identifier css
IsSite(node) ==
  node.type = "TaggedTemplateExpression"
    /\ node.tagType = "Identifier" /\ node.tagName = "css"

RECURSIVE NodesOf(_)
\* the nodes of a tree
NodesOf(node) ==
  {node} \cup UNION {NodesOf(node.kids[j]) : j \in 1..Len(node.kids)}

\* the elements of a set of nodes by ascending start
ByAscendingStart(S) ==
  [k \in 1..Cardinality(S) |->
     CHOOSE x \in S : Cardinality({y \in S : y.start < x.start}) = k - 1]

\* the css sites of a file that parses, by ascending start
SitesOf(file) == ByAscendingStart({n \in NodesOf(parse(file)) : IsSite(n)})

\* the value of the expression a site interpolates
ExprValue(site) ==
  CASE site.expr.kind = "lit" -> site.expr.value
    [] site.expr.kind = "ident" -> StmtDecl.value
    [] OTHER -> <<>>

\* the CSS value of a site: the raw chunk on the static path, the value the
\* template literal evaluates to on the evaluation path
SiteCss(site, static) ==
  IF static THEN site.raw ELSE Cook(site.raw) \o ExprValue(site)

\* the calls of the hook for which transform returned the rewritten text
Successful == {c \in DOMAIN calls : calls[c].transformResult.kind = "value"}

\* the import line transform puts in front of the text it returns
ImportLine(call) == <<"import \"">> \o call.cssFileName \o <<"\"\n">>

\* the text transform returned, without the import line
Rewritten(call) ==
  Slice(call.transformResult.code, Len(ImportLine(call)),
        Len(call.transformResult.code))

RECURSIVE Spliced(_, _, _, _)
\* code from the end of site k - 1 on, the range of every later site
\* replaced by the JSON-quoted class name of the site's CSS value
Spliced(code, sites, k, static) ==
  IF k > Len(sites)
  THEN Slice(code, IF k = 1 THEN 0 ELSE sites[k - 1].end, Len(code))
  ELSE Slice(code, IF k = 1 THEN 0 ELSE sites[k - 1].end, sites[k].start)
         \o JSONStringify(ClassName(SiteCss(sites[k], static)))
         \o Spliced(code, sites, k + 1, static)

\* C1: on every successful transform, the range of each css site of the
\* original text is replaced by JSON.stringify of the class name emit
\* returned for the CSS value of that same site, on the static and on the
\* evaluation path
C1_SiteGetsItsClassName ==
  \A c \in Successful :
    /\ Rewritten(calls[c])
         = Spliced(CodeOf(calls[c].file), SitesOf(calls[c].file), 1,
                   calls[c].modifiedCode[1].isStatic)
    /\ \A k \in DOMAIN calls[c].acc.emitArgs :
         calls[c].acc.emitNames[k] = ClassName(calls[c].acc.emitArgs[k])

\* a successful transform on the evaluation path of a file with eleven sites
C1_Witness ==
  \E c \in Successful :
    /\ calls[c].evaluated
    /\ Len(SitesOf(calls[c].file)) >= 11
    /\ calls[c].pc = "returned"

\* C2: within one transform call the arguments passed to emit are the CSS
\* values of the file's sites in ascending start order, once per site, on
\* both paths and for any number of sites
C2_EmitInSourceOrder ==
  \A c \in Successful :
    calls[c].acc.emitArgs
      = [k \in 1..Len(SitesOf(calls[c].file)) |->
           SiteCss(SitesOf(calls[c].file)[k], calls[c].modifiedCode[1].isStatic)]
Accumulated(call) ==
  Concat([k \in 1..Len(call.acc.emitArgs) |-> Fragment(call.acc.emitArgs[k])])

\* C4: a successful transform of an id replaces the id's buffer entry: when
\* the call returns, the entry is the CSS accumulated during that call and
\* nothing of an earlier call
C4_RetransformReplaces ==
  [][\A c \in DOMAIN calls :
       (/\ calls[c].pc = "settled" /\ calls'[c].pc = "returned"
        /\ calls[c].transformResult.kind = "value")
         => MapGet(cssByFile', calls[c].id) = <<Accumulated(calls[c])>>
    ]_vars

\* a second successful transform of an id whose entry held other CSS
C4_Witness ==
  \E c \in DOMAIN calls :
    /\ calls[c].pc = "returned" /\ calls[c].returned.kind = "value"
    /\ calls[c].before # <<>>
    /\ calls[c].before # <<Accumulated(calls[c])>>
    /\ MapGet(cssByFile, calls[c].id) = <<Accumulated(calls[c])>>

\* the calls of the hook whose file the classifier accepted
Accepted == {c \in DOMAIN calls : calls[c].modifiedCode # <<>>}

\* C5: the site ranges the classifier records are strictly ascending by
\* start and consecutive ranges do not overlap
C5_RangesAscending ==
  \A c \in Accepted :
    \A k \in 1..(Len(calls[c].modifiedCode[1].templateLiteralLocations) - 1) :
      /\ calls[c].modifiedCode[1].templateLiteralLocations[k][1]
           < calls[c].modifiedCode[1].templateLiteralLocations[k + 1][1]
      /\ calls[c].modifiedCode[1].templateLiteralLocations[k][2]
           <= calls[c].modifiedCode[1].templateLiteralLocations[k + 1][1]

\* the site of a file recorded with the range location
SiteAt(file, location) ==
  CHOOSE n \in NodesOf(parse(file)) :
    IsSite(n) /\ <<n.start, n.end>> = location

\* C6: the classifier reports all static iff every css site of the file has
\* no interpolation; the list then has one chunk per site, the k-th chunk
\* being the raw text of the template chunk of the k-th recorded site
C6_AllStaticIffNoInterpolation ==
  \A c \in Accepted :
    /\ calls[c].modifiedCode[1].isStatic
         <=> \A k \in DOMAIN SitesOf(calls[c].file) :
               SitesOf(calls[c].file)[k].nExpressions = 0
    /\ calls[c].modifiedCode[1].isStatic
         => /\ Len(calls[c].modifiedCode[1].allStaticChunks)
                 = Len(SitesOf(calls[c].file))
            /\ \A k \in DOMAIN calls[c].modifiedCode[1].allStaticChunks :
                 calls[c].modifiedCode[1].allStaticChunks[k]
                   = SiteAt(calls[c].file,
                            calls[c].modifiedCode[1].templateLiteralLocations[k]).raw

\* an all-static file with two sites of different text, one with an escape
C6_Witness ==
  \E c \in Accepted :
    /\ calls[c].modifiedCode[1].isStatic
    /\ Len(calls[c].modifiedCode[1].allStaticChunks) = 2
    /\ calls[c].modifiedCode[1].allStaticChunks[1] = <<"a">>
    /\ calls[c].modifiedCode[1].allStaticChunks[2] = <<"b", "\\n">>
\* the number of places of text where pat occurs
CountOf(text, pat) ==
  Cardinality({i \in 0..(Len(text) - Len(pat)) : Slice(text, i, i + Len(pat)) = pat})

\* the name of the export of site i, as the derivative program declares it
DeclaredName(i) == <<"export const ">> \o exportPrefix \o Digits(i) \o <<" = ">>

\* the declaration of the export of site i: the name, the site's template
\* literal as the original text has it after the tag, a semicolon
DeclarationOf(code, i, site) ==
  DeclaredName(i) \o Slice(code, site.start + 3, site.end) \o <<";\n">>

\* the statement of the file, a child of the program, that holds the site
TopLevelOf(file, site) ==
  CHOOSE s \in {parse(file).kids[j] : j \in 1..Len(parse(file).kids)} :
    s.start <= site.start /\ site.end <= s.end

\* what the edit log has inserted right before offset p of the original
InsertedBefore(ms, p) ==
  IF p = 0 THEN ms.intro ELSE ms.chunks[ByEnd(ms, p)].outro

\* C7: for every css site i the derivative program declares the export
\* __severed_css_<i> exactly once, initialised with the site's template
\* literal, and the declaration is part of what is inserted right before
\* the top-level statement holding the site, so never inside a block
C7_OneHoistedExportPerSite ==
  \A c \in Accepted :
    \A k \in DOMAIN calls[c].modifiedCode[1].templateLiteralLocations :
      /\ CountOf(calls[c].modifiedCode[1].code, DeclaredName(k - 1)) = 1
      /\ Includes(
           InsertedBefore(
             calls[c].modifiedCode[1].stringForRollup,
             TopLevelOf(calls[c].file,
                        SiteAt(calls[c].file,
                               calls[c].modifiedCode[1].templateLiteralLocations[k])).start),
           DeclarationOf(CodeOf(calls[c].file), k - 1,
                         SiteAt(calls[c].file,
                                calls[c].modifiedCode[1].templateLiteralLocations[k])))

\* a site inside a block of the second statement of a file
C7_Witness ==
  \E c \in Accepted :
    /\ calls[c].file = <<"Static", "Block">>
    /\ Len(calls[c].modifiedCode[1].templateLiteralLocations) = 2

\* the name the name-maker of index.ts returns once the call has emitted
\* all its CSS: the asset path in push mode, the virtual id in pull mode
ExpectedName(call) ==
  IF opts.writeCSSFiles THEN call.id \o <<".severed.css">>
  ELSE call.id \o <<"?", "severed", "=">>
         \o HexSlice(hash(<<Accumulated(call)>>), 5) \o <<"&", "lang.css">>

\* C8: the text of a successful transform starts with the import of the
\* name the name-maker returned, and no other import is injected
C8_OneImportFirst ==
  \A c \in Successful :
    /\ calls[c].cssFileName = ExpectedName(calls[c])
    /\ StartsWith(calls[c].transformResult.code, ImportLine(calls[c]))
    /\ CountOf(calls[c].transformResult.code, <<"import \"">>) = 1

\* a successful transform of a file with several sites, in pull mode
C8_Witness ==
  \E c \in Successful :
    /\ ~opts.writeCSSFiles
    /\ Len(calls[c].acc.emitArgs) >= 2
    /\ calls[c].pc = "returned"

\* the original text between the end of site k and the start of site k + 1
\* (from the start of the text for k = 0, to its end for the last site)
Gap(code, sites, k) ==
  Slice(code, IF k = 0 THEN 0 ELSE sites[k].end,
        IF k = Len(sites) THEN Len(code) ELSE sites[k + 1].start)

RECURSIVE FramesFrom(_, _, _, _)
\* out is the original from gap k on, with one JSON string in the place of
\* each site range
FramesFrom(out, code, sites, k) ==
  /\ StartsWith(out, Gap(code, sites, k))
  /\ IF k = Len(sites) THEN Len(out) = Len(Gap(code, sites, k))
     ELSE /\ Len(out) > Len(Gap(code, sites, k)) + 1
          /\ out[Len(Gap(code, sites, k)) + 1] = "\""
          /\ FindFrom(out, Len(Gap(code, sites, k)) + 2, {"\""}) # 0
          /\ FramesFrom(
               SubSeq(out, FindFrom(out, Len(Gap(code, sites, k)) + 2, {"\""}) + 1,
                      Len(out)),
               code, sites, k + 1)

\* C9: the rewritten text is the import line followed by the original text
\* in which only the site ranges are replaced: every character outside the
\* site ranges is there, unchanged and in order
C9_OnlySitesReplaced ==
  \A c \in Successful :
    /\ StartsWith(calls[c].transformResult.code, ImportLine(calls[c]))
    /\ FramesFrom(Rewritten(calls[c]), CodeOf(calls[c].file),
                  SitesOf(calls[c].file), 0)

\* a successful transform of a file whose derivative program lost an
\* export keyword and gained an annotation
C9_Witness ==
  \E c \in Successful :
    /\ calls[c].file = <<"ExportDecl", "Call">>
    /\ Includes(calls[c].modifiedCode[1].code, PureAnnotation)
    /\ ~Includes(calls[c].modifiedCode[1].code, <<"export", " ">>)
    /\ calls[c].pc = "returned"

\* C10: a text without the substring css| (| the backtick) gets null from
\* transform, valid syntax or not: nothing is parsed, emit and the
\* name-maker are not called
C10_NoCssNoParse ==
  \A c \in DOMAIN calls :
    (Handled(calls[c].id)
       /\ ~Includes(CodeOf(calls[c].file), <<"c", "s", "s", Backtick>>))
      => /\ calls[c].transformResult.kind = "null"
         /\ ~calls[c].parsed
         /\ calls[c].acc.emitArgs = <<>>
         /\ calls[c].cssFileName = <<>>

\* a text that is no valid syntax and has no css|: the hook returned null
C10_Witness ==
  \E c \in DOMAIN calls :
    /\ calls[c].file = <<"Bad">>
    /\ calls[c].pc = "returned" /\ calls[c].returned.kind = "null"
    /\ ~calls[c].parsed

\* the calls of the hook on a text that has css| (| the backtick), parses,
\* and has no tagged template whose tag is the identifier css
WithoutSite ==
  {c \in DOMAIN calls :
     /\ Handled(calls[c].id)
     /\ Includes(CodeOf(calls[c].file), <<"c", "s", "s", Backtick>>)
     /\ ~HasSyntaxError(calls[c].file)
     /\ SitesOf(calls[c].file) = <<>>}

\* C11: if the text contains css| but parsing finds no tagged template whose
\* tag is the bare identifier css, transform returns null, emit and the
\* name-maker are never called, and the hook (here the one call of the
\* behaviour) neither stores CSS under the id nor emits an asset
C11_NoSiteReturnsNull ==
  \A c \in WithoutSite :
    /\ calls[c].parsed
    /\ calls[c].transformResult = Resolved("null", <<>>)
    /\ calls[c].returned.kind \in {"pending", "null"}
    /\ calls[c].acc.emitArgs = <<>>
    /\ calls[c].cssFileName = <<>>
    /\ calls[c].id \notin DOMAIN cssByFile
    /\ emitted = <<>>

\* styles.css|a|; below a declaration: the text has css|, the tag is a
\* member expression, the hook has returned null
C11_Witness ==
  \E c \in WithoutSite :
    /\ calls[c].file = <<"Decl", "Member">>
    /\ calls[c].pc = "returned" /\ calls[c].returned.kind = "null"

\* C12: emit is deterministic in its CSS argument: the class name is
\* severed- followed by the first 7 hex characters of the SHA-512 of the CSS
\* text, so two emit calls with the same CSS, in one file or in two, return
\* the same class name whatever was emitted before them
C12_EmitDeterministic ==
  \A c \in DOMAIN calls, d \in DOMAIN calls :
    \A k \in DOMAIN calls[c].acc.emitArgs, j \in DOMAIN calls[d].acc.emitArgs :
      /\ calls[c].acc.emitNames[k]
           = <<"severed-", "hex7", "sha512(">> \o calls[c].acc.emitArgs[k] \o <<")">>
      /\ calls[c].acc.emitArgs[k] = calls[d].acc.emitArgs[j]
           => calls[c].acc.emitNames[k] = calls[d].acc.emitNames[j]

\* two calls on two ids emitted the same CSS, one as its first and one as
\* its second emit, so with different CSS accumulated before it
C12_Witness ==
  \E c \in DOMAIN calls, d \in DOMAIN calls :
    /\ calls[c].id # calls[d].id
    /\ Len(calls[c].acc.emitArgs) = 1 /\ Len(calls[d].acc.emitArgs) = 2
    /\ calls[c].acc.emitArgs[1] = calls[d].acc.emitArgs[2]
    /\ calls[c].acc.emitNames[1] = calls[d].acc.emitNames[2]

\* the step in which call c returns the text of a successful transform
Returns(c) ==
  /\ c \in DOMAIN calls
  /\ calls[c].pc = "settled" /\ calls'[c].pc = "returned"
  /\ calls[c].transformResult.kind = "value"

\* C13: in pull mode, when a successful transform of id I returns, the
\* injected import names I?severed=<h>&lang.css, h being the first 5 hex
\* characters of the hash of exactly the CSS now stored under I; the name is
\* made after all emit calls, so two transforms of I that accumulated
\* different CSS got different names
C13_PullNameHashesStoredCss ==
  [][\A c \in DOMAIN calls :
       (~opts.writeCSSFiles /\ Returns(c))
         => /\ calls[c].id \in DOMAIN cssByFile'
            /\ calls[c].cssFileName
                 = calls[c].id \o <<"?", "severed", "=", "hex5", "sha512(">>
                     \o cssByFile'[calls[c].id] \o <<")", "&", "lang.css">>
            /\ StartsWith(calls[c].transformResult.code,
                          <<"import \"">> \o calls[c].cssFileName \o <<"\"\n">>)
            /\ \A d \in DOMAIN calls :
                 (/\ calls[d].id = calls[c].id
                  /\ calls[d].transformResult.kind = "value"
                  /\ Accumulated(calls[d]) # Accumulated(calls[c]))
                   => calls[d].cssFileName # calls[c].cssFileName
    ]_vars

\* in pull mode two transforms of one id have returned text, with
\* different CSS and different names
C13_Witness ==
  \E c \in DOMAIN calls, d \in DOMAIN calls :
    /\ ~opts.writeCSSFiles
    /\ calls[c].id = calls[d].id
    /\ calls[c].pc = "returned" /\ calls[c].returned.kind = "value"
    /\ calls[d].pc = "returned" /\ calls[d].returned.kind = "value"
    /\ Len(calls[c].acc.emitArgs) = 2 /\ Len(calls[d].acc.emitArgs) = 1
    /\ calls[c].cssFileName # calls[d].cssFileName

\* the position of the first question mark of an id, 0 if it has none
QueryAt(id) ==
  IF \A k \in DOMAIN id : id[k] # "?" THEN 0
  ELSE CHOOSE k \in DOMAIN id : id[k] = "?" /\ \A j \in 1..(k - 1) : id[j] # "?"

\* the id carries a non-empty severed query parameter: its query, which
\* starts at the first question mark, has a pair severed=<value>
CarriesSevered(id) ==
  /\ QueryAt(id) # 0
  /\ \E k \in QueryAt(id)..(Len(id) - 3) :
       /\ k = QueryAt(id) \/ id[k] = "&"
       /\ id[k + 1] = "severed" /\ id[k + 2] = "="
       /\ id[k + 3] # "&"

\* the id without its query suffix
Stripped(id) == SubSeq(id, 1, QueryAt(id) - 1)

\* the answers the hooks gave in this step
AskedNow == {asked'[k] : k \in DOMAIN asked' \ DOMAIN asked}

Joined(id) ==
  <<"/", "w", "/">> \o (IF id # <<>> /\ id[1] = "/" THEN Tail(id) ELSE id)

C15_ResolveIdClaimsItsMode ==
  \A k \in DOMAIN asked :
    asked[k].hook = "resolveId"
      => asked[k].result
           = IF opts.writeCSSFiles
             THEN IF asked[k].id[Len(asked[k].id)] = ".severed.css"
                  THEN [kind |-> "external", id |-> asked[k].id, text |-> <<>>]
                  ELSE [kind |-> "undefined", id |-> <<>>, text |-> <<>>]
             ELSE IF CarriesSevered(asked[k].id)
                  THEN [kind |-> "id", id |-> asked[k].id, text |-> <<>>]
                  ELSE [kind |-> "undefined", id |-> <<>>, text |-> <<>>]

\* the host resolved the import a transformed file got: external in push
\* mode, the id itself in pull mode
C15_Witness ==
  \E c \in DOMAIN calls, k \in DOMAIN asked :
    /\ calls[c].pc = "returned" /\ calls[c].returned.kind = "value"
    /\ asked[k].hook = "resolveId" /\ asked[k].id = calls[c].cssFileName
    /\ asked[k].result.kind = (IF opts.writeCSSFiles THEN "external" ELSE "id")
    /\ asked[k].result.id = calls[c].cssFileName

\* the specifier of the import the text a call returned starts with
ImportedPath(call) ==
  SubSeq(call.transformResult.code, 2,
         FindFrom(call.transformResult.code, 2, {"\"\n"}) - 1)

\* C16: in push mode the step in which a successful transform returns
\* emits exactly one asset, named by the path the injected import names and
\* holding the CSS the call accumulated; no other step emits an asset (a
\* call that is skipped, returns null or fails emits none), and in pull
\* mode no asset is ever emitted
C16_OneAssetPerSuccess ==
  [][/\ ~opts.writeCSSFiles => emitted' = <<>>
     /\ \A c \in DOMAIN calls :
          (opts.writeCSSFiles /\ Returns(c))
            => emitted' = Append(emitted,
                                 [type |-> "asset",
                                  fileName |-> ImportedPath(calls[c]),
                                  source |-> Accumulated(calls[c])])
     /\ (\A c \in DOMAIN calls : ~Returns(c)) => emitted' = emitted
    ]_vars

\* push mode: a successful call, a call that failed and a call that was
\* skipped have returned, and the host has the one asset of the first
C16_Witness ==
  /\ opts.writeCSSFiles
  /\ Len(emitted) = 1
  /\ \E c \in DOMAIN calls, d \in DOMAIN calls, e \in DOMAIN calls :
       /\ calls[c].pc = "returned" /\ calls[c].returned.kind = "value"
       /\ emitted[1].fileName = ImportedPath(calls[c])
       /\ calls[d].pc = "returned" /\ calls[d].returned.kind = "threw"
       /\ calls[e].pc = "returned" /\ calls[e].returned.kind = "undefined"

\* letters and digits
Alphanumerics == Letters \cup {"0", "1", "2", "3", "4", "5", "6", "7", "8", "9"}

\* the positions of text that start a maximal run of characters that are
\* not alphanumeric, and the positions of its alphanumeric characters
Kept(text) ==
  {k \in DOMAIN text :
     \/ text[k] \in Alphanumerics
     \/ k = 1 \/ text[k - 1] \in Alphanumerics}

\* text with each maximal run of non-alphanumeric characters replaced by
\* one dash
Flattened(text) ==
  [j \in 1..Cardinality(Kept(text)) |->
     LET k == CHOOSE x \in Kept(text) :
                Cardinality({y \in Kept(text) : y < x}) = j - 1
     IN IF text[k] \in Alphanumerics THEN text[k] ELSE "-"]

\* the id relative to the working directory /w
RelativeForm(id) ==
  IF Len(id) > 3 /\ SubSeq(id, 1, 3) = <<"/", "w", "/">>
  THEN SubSeq(id, 4, Len(id)) ELSE id

\* C17: the asset path of push mode is the module id, relative to the
\* working directory, with each maximal run of non-alphanumeric characters
\* replaced by one dash (letters and digits kept), followed by
\* .severed.css: so is the name of every asset the adapter of index.ts
\* emits, and so is the path distFileName computes for the id
C17_AssetPathFlattened ==
  \A c \in Successful :
    (opts.writeCSSFiles /\ calls[c].pc = "returned")
      => /\ \E k \in DOMAIN emitted :
              emitted[k].fileName
                = Flattened(RelativeForm(calls[c].id)) \o <<".severed.css">>
         /\ distFileName(calls[c].id)
              = Flattened(RelativeForm(calls[c].id)) \o <<".severed.css">>

\* the file interpolates the identifier color at a site above which color
\* is not declared, so the script throws when it evaluates the export
UsesUndeclared(file) ==
  \E k \in DOMAIN file :
    file[k] = "Dynamic" /\ \A j \in 1..(k - 1) : file[j] # "Decl"

\* the message of the error the script throws then
ScriptError(file) ==
  IF \E j \in DOMAIN file : file[j] = "Decl"
  THEN <<"Cannot access '", "color", "' before initialization">>
  ELSE <<"color", " is not defined">>

\* C18: when the execution of the tree-shaken script throws, transform
\* rejects with the message Failed to evaluate |<id>| while extracting
\* css: (| the backtick) followed by the message of the error thrown, and
\* emit is not called for any site, nor the name-maker
C18_EvaluationErrorWrapped ==
  \A c \in DOMAIN calls :
    (calls[c].evaluated /\ UsesUndeclared(calls[c].file))
      => /\ calls[c].transformResult
              = [kind |-> "threw", code |-> <<>>,
                 message |-> <<"Failed to evaluate ", Backtick>> \o calls[c].id
                               \o <<Backtick, " while extracting css: ">>
                               \o ScriptError(calls[c].file)]
         /\ calls[c].returned \in {Pending, calls[c].transformResult}
         /\ calls[c].acc.emitArgs = <<>>
         /\ calls[c].cssFileName = <<>>

\* css|a|; const k = css|c${color}|; with color declared nowhere: the
\* script threw and the hook has rejected
C18_Witness ==
  \E c \in DOMAIN calls :
    /\ calls[c].file = <<"Static", "Dynamic">>
    /\ calls[c].evaluated
    /\ calls[c].pc = "returned" /\ calls[c].returned.kind = "threw"

\* the script gives its exports object a property whose name begins with
\* __severed_css_ and whose value is a number
HasNonStringExport(file) == \E k \in DOMAIN file : file[k] = "Assign"

\* C19: on the evaluation path, if an export whose name begins with
\* __severed_css_ has a value that is not a string, transform rejects with
\* expected css to evaluate to string; emit is not called with that value
\* (it is not called at all: the property the module body assigned is the
\* first entry), nor is the name-maker
C19_NonStringRejected ==
  \A c \in DOMAIN calls :
    (/\ calls[c].evaluated
     /\ HasNonStringExport(calls[c].file)
     /\ ~UsesUndeclared(calls[c].file))
      => /\ calls[c].transformResult
              = [kind |-> "threw", code |-> <<>>,
                 message |-> <<"expected css to evaluate to string">>]
         /\ calls[c].returned \in {Pending, calls[c].transformResult}
         /\ calls[c].acc.emitArgs = <<>>
         /\ calls[c].cssFileName = <<>>

\* a file with eleven sites, one interpolating, and the assignment: the
\* script ran and the hook has rejected
C19_Witness ==
  \E c \in DOMAIN calls :
    /\ calls[c].file = <<"Many", "Assign">>
    /\ calls[c].evaluated
    /\ calls[c].pc = "returned" /\ calls[c].returned.kind = "threw"

\* the calls of the hook on a text that has css| (| the backtick) and
\* holds the statement that is no valid syntax
Unparsable ==
  {c \in DOMAIN calls :
     /\ Handled(calls[c].id)
     /\ Includes(CodeOf(calls[c].file), <<"c", "s", "s", Backtick>>)
     /\ \E k \in DOMAIN calls[c].file : calls[c].file[k] = "Bad"}

\* C20: the syntax error the parser raises on a text that passes the cheap
\* filter reaches the caller as it is, with the parser's message and no
\* prefix, and for that file emit, the sub-bundler, the evaluator and the
\* name-maker are not invoked
C20_SyntaxErrorPropagates ==
  \A c \in Unparsable :
    /\ calls[c].parsed
    /\ calls[c].transformResult
         = [kind |-> "threw", code |-> <<>>, message |-> <<"Unexpected token">>]
    /\ calls[c].returned \in {Pending, calls[c].transformResult}
    /\ calls[c].acc.emitArgs = <<>>
    /\ ~calls[c].bundled /\ ~calls[c].evaluated
    /\ calls[c].cssFileName = <<>>

\* the text x ) ) ; css|a|; : the hook has rejected with the parser's error
C20_Witness ==
  \E c \in Unparsable :
    /\ calls[c].file = <<"Bad", "Static">>
    /\ calls[c].pc = "returned"
    /\ calls[c].returned.kind = "threw"
    /\ calls[c].returned.message = <<"Unexpected token">>

(***************************************************************************)
(* The hook on ids outside the extension whitelist.                        *)
(***************************************************************************)
\* the id ends in .js, .ts or .tsx, read off its last characters
Whitelisted(id) ==
  \E ext \in {<<".", "j", "s">>, <<".", "t", "s">>, <<".", "t", "s", "x">>} :
    /\ Len(id) >= Len(ext)
    /\ SubSeq(id, Len(id) - Len(ext) + 1, Len(id)) = ext

\* C21: a call of the hook on an id that does not end in .js, .ts or .tsx
\* is skipped: it returns undefined at once, the CSS buffer and the emitted
\* assets are what they were, and the text was neither filtered, parsed nor
\* classified, nothing was emitted and no name was made
C21_UnhandledIdSkipped ==
  [][\A c \in DOMAIN calls' \ DOMAIN calls :
       ~Whitelisted(calls'[c].id)
         => /\ cssByFile' = cssByFile
            /\ emitted' = emitted
            /\ calls'[c].pc = "returned"
            /\ calls'[c].returned = [kind |-> "undefined", code |-> <<>>,
                                     message |-> <<>>]
            /\ calls'[c].transformResult.kind = "pending"
            /\ ~calls'[c].parsed
            /\ calls'[c].modifiedCode = <<>>
            /\ calls'[c].acc.emitArgs = <<>>
            /\ calls'[c].acc.cssForThisFile = <<>>
            /\ calls'[c].cssFileName = <<>>
    ]_vars

\* the hook was called on /w/c.vue with a text that has a css site while the
\* buffer held the CSS of another module, and the buffer still holds it
C21_Witness ==
  \E c \in DOMAIN calls :
    /\ calls[c].id = IdC
    /\ calls[c].file = <<"Static">>
    /\ calls[c].pc = "returned" /\ calls[c].returned.kind = "undefined"
    /\ \E d \in 1..(c - 1) :
         /\ calls[d].pc = "returned" /\ calls[d].returned.kind = "value"
         /\ MapGet(cssByFile, calls[d].id) = <<Accumulated(calls[d])>>
    /\ emitted = <<>> \/ \A k \in DOMAIN emitted : emitted[k].fileName # IdC \o suffix

(***************************************************************************)
(* The static fast path against the evaluation path.                       *)
(***************************************************************************)
\* C22: a site with no interpolation gets the same CSS text on both paths:
\* in every successful transform, static or evaluated, the text passed to
\* emit for such a site is the raw text of its chunk, which is what the
\* fast path passes, and the site's place holds the class name of that text
C22_StaticSiteSameOnBothPaths ==
  \A c \in Successful :
    \A k \in DOMAIN SitesOf(calls[c].file) :
      SitesOf(calls[c].file)[k].nExpressions = 0
        => /\ \E j \in DOMAIN calls[c].acc.emitArgs :
                calls[c].acc.emitArgs[j] = SitesOf(calls[c].file)[k].raw
           /\ Includes(calls[c].transformResult.code,
                       JSONStringify(ClassName(SitesOf(calls[c].file)[k].raw)))

(***************************************************************************)
(* The stages of one transform.                                            *)
(***************************************************************************)
\* some css site of the file has an interpolation
HasInterpolation(file) ==
  \E k \in DOMAIN SitesOf(file) : SitesOf(file)[k].nExpressions > 0

\* C23: a transform goes through its stages in order: a text is classified
\* only once parsed, the sub-bundler is invoked exactly for the classified
\* files with a site that has an interpolation and the evaluator only on
\* what the sub-bundler built, emit is called only for an all-static file
\* or after the evaluation, and a file whose sites are all static is
\* substituted and named in the step that classified it, with neither the
\* sub-bundler nor the evaluator invoked
C23_StagesInOrder ==
  \A c \in DOMAIN calls :
    /\ calls[c].modifiedCode # <<>> => calls[c].parsed
    /\ calls[c].bundled
         => calls[c].modifiedCode # <<>> /\ HasInterpolation(calls[c].file)
    /\ calls[c].evaluated => calls[c].bundled
    /\ (calls[c].modifiedCode # <<>> /\ HasInterpolation(calls[c].file))
         => calls[c].pc = "rollup" \/ calls[c].bundled
    /\ (calls[c].bundled /\ ~HasUnresolvedImport(calls[c].modifiedCode[1].code))
         => calls[c].pc = "generate" \/ calls[c].evaluated
    /\ calls[c].acc.emitArgs # <<>>
         => /\ calls[c].modifiedCode # <<>>
            /\ ~HasInterpolation(calls[c].file) \/ calls[c].evaluated
    /\ calls[c].cssFileName # <<>> => calls[c].acc.emitArgs # <<>>
    /\ (/\ calls[c].modifiedCode # <<>>
        /\ SitesOf(calls[c].file) # <<>>
        /\ ~HasInterpolation(calls[c].file))
         => /\ ~calls[c].bundled /\ ~calls[c].evaluated
            /\ calls[c].transformResult.kind = "value"
            /\ Len(calls[c].acc.emitArgs) = Len(SitesOf(calls[c].file))
            /\ calls[c].cssFileName # <<>>

\* a file with a static site and a site that interpolates has gone through
\* every stage: parsed, classified, bundled, evaluated, twelve sites
\* substituted, named and returned
C23_Witness ==
  \E c \in DOMAIN calls :
    /\ calls[c].file = <<"Static", "Many">>
    /\ calls[c].parsed /\ calls[c].bundled /\ calls[c].evaluated
    /\ calls[c].transformResult.kind = "value"
    /\ Len(calls[c].acc.emitArgs) = 12
    /\ calls[c].pc = "returned"

(***************************************************************************)
(* The buffer entry of an id while a transform of the id is under way.     *)
(***************************************************************************)
\* call c is the latest call of the hook on its id, the id is whitelisted,
\* and the call is in flight or has returned null or an error
InWindow(cs, c) ==
  /\ Whitelisted(cs[c].id)
  /\ \A d \in DOMAIN cs : d > c => cs[d].id # cs[c].id
  /\ \/ cs[c].pc \in {"rollup", "generate", "settled"}
     \/ cs[c].pc = "returned" /\ cs[c].returned.kind \in {"null", "threw"}

AloneArgs ==
  [file \in {f \in HostFiles : ~HasSyntaxError(f)} |->
     [k \in 1..Len(SitesOf(file)) |->
        SiteCss(SitesOf(file)[k], ~HasInterpolation(file))]]

\* the CSS accumulated by a transform of the file on its own
AloneCss ==
  [file \in DOMAIN AloneArgs |->
     Concat([k \in DOMAIN AloneArgs[file] |-> Fragment(AloneArgs[file][k])])]

\* the class names a transform of the file on its own puts in the text
AloneNames ==
  [file \in DOMAIN AloneArgs |->
     [k \in DOMAIN AloneArgs[file] |-> ClassName(AloneArgs[file][k])]]

\* the specifier the import of module id gets for that CSS
AloneName(id, file) ==
  IF opts.writeCSSFiles THEN id \o <<".severed.css">>
  ELSE id \o <<"?", "severed", "=", "hex5", "sha512(">> \o AloneCss[file]
         \o <<")", "&", "lang.css">>

\* C25: however the calls of the hook interleave at their awaits, a
\* transform that succeeds gives what it gives alone: when it returns, the
\* class names, the import and the buffer entry of its id are those of the
\* file transformed on its own, with nothing of another file's CSS, and the
\* entries of the other ids are left as they were
C25_InterleavingIsolated ==
  [][\A c \in DOMAIN calls :
       Returns(c)
         => /\ calls[c].acc.emitNames = AloneNames[calls[c].file]
            /\ MapGet(cssByFile', calls[c].id) = <<AloneCss[calls[c].file]>>
            /\ calls[c].cssFileName = AloneName(calls[c].id, calls[c].file)
            /\ StartsWith(calls'[c].returned.code,
                          <<"import \"">> \o AloneName(calls[c].id, calls[c].file)
                            \o <<"\"\n">>)
            /\ \A id \in (DOMAIN cssByFile \cup DOMAIN cssByFile') \ {calls[c].id} :
                 MapGet(cssByFile', id) = MapGet(cssByFile, id)
    ]_vars

\* two transforms of different modules overlapped: the one started later
\* has stored its CSS and returned while the one started earlier, of a file
\* that is evaluated, was in flight; that one has now settled with its own
\* CSS and is about to store it
C25_Witness ==
  \E c \in DOMAIN calls, d \in DOMAIN calls :
    /\ c < d /\ calls[c].id # calls[d].id
    /\ calls[c].file = <<"Decl", "Dynamic">> /\ calls[d].file = <<"Call", "Static">>
    /\ calls[c].pc = "settled" /\ calls[c].transformResult.kind = "value"
    /\ calls[c].acc.cssForThisFile = AloneCss[calls[c].file]
    /\ calls[d].pc = "returned" /\ calls[d].returned.kind = "value"
    /\ MapGet(cssByFile, calls[d].id) = <<AloneCss[calls[d].file]>>
    /\ calls[c].id \notin DOMAIN cssByFile

(***************************************************************************)
(* The pure annotations of the derivative program.                         *)
(***************************************************************************)
\* the call expressions of a file that parses
CallsOf(file) == {n \in NodesOf(parse(file)) : n.type = "CallExpression"}

\* the places of a text where the argument list of a call opens
CallPlaces(code) == {p \in DOMAIN code : code[p] = "("}

\* the calls of the hook on a text with a call expression that was handed
\* to the classifier and parses, its css sites not nested in one another
WithCalls ==
  {c \in DOMAIN calls :
     /\ calls[c].parsed
     /\ ~HasSyntaxError(calls[c].file)
     /\ \A k \in DOMAIN calls[c].file : calls[c].file[k] # "Nested"
     /\ CallsOf(calls[c].file) # {}}

\* C26: the classifier produces the derivative program of every such text,
\* and in it every call expression of the original, a call inside an
\* interpolation of a css template included, has the pure annotation right
\* before its callee; no call is left without it
C26_EveryCallAnnotated ==
  \A c \in WithCalls :
    /\ calls[c].modifiedCode # <<>>
    /\ calls[c].modifiedCode # <<>>
         => /\ Cardinality(CallPlaces(calls[c].modifiedCode[1].code))
                 = Cardinality(CallsOf(calls[c].file))
            /\ \A p \in CallPlaces(calls[c].modifiedCode[1].code) :
                 p > 2 /\ <<calls[c].modifiedCode[1].code[p - 2]>> = PureAnnotation

(***************************************************************************)
(* The exports of the derivative program.                                  *)
(***************************************************************************)
\* the file has the statement named
Has(file, name) == \E k \in DOMAIN file : file[k] = name

\* the calls of the hook whose file the classifier accepted and which has
\* an export statement
WithExports ==
  {c \in Accepted :
     \E name \in {"ExportDecl", "ExportList", "ExportAll", "ExportDefault"} :
       Has(calls[c].file, name)}

\* C27: the derivative program keeps no export of the original: it has no
\* export keyword but those of the generated bindings, one per recorded
\* site; the statements export { x } and export * from are gone whole; of
\* export const k = ... and export default function f ... the declaration
\* stays, its site replaced and its call annotated; and the recorded sites
\* are all the css sites of the file, those inside exported declarations
\* included
C27_NoOriginalExportKept ==
  \A c \in WithExports :
    LET code == calls[c].modifiedCode[1].code
        file == calls[c].file
        locations == calls[c].modifiedCode[1].templateLiteralLocations
    IN /\ CountOf(code, <<"export">>) = 0
       /\ CountOf(code, <<"default">>) = 0
       /\ CountOf(code, <<"export const ">>) = Len(locations)
       /\ \A i \in 1..Len(locations) :
            CountOf(code, DeclaredName(i - 1)) = 1
       /\ Has(file, "ExportList") => CountOf(code, <<"{", "x", "}">>) = 0
       /\ Has(file, "ExportAll")
            => CountOf(code, <<"*">>) = 0 /\ CountOf(code, <<"from './o'">>) = 0
       /\ Has(file, "ExportDecl")
            => CountOf(code, <<"const", "k", "=">> \o Sentinel \o <<";">>)
                 = CountOf(CodeOf(file), <<"const", "k", "=">>)
       /\ Has(file, "ExportDefault")
            => CountOf(code, <<"function f()", "{">> \o PureAnnotation
                               \o <<"g", "(">> \o Sentinel \o <<")", ";", "}">>)
                 = CountOf(CodeOf(file), <<"export", "default">>)
       /\ {locations[k] : k \in DOMAIN locations}
            = {<<SitesOf(file)[k].start, SitesOf(file)[k].end>> :
                 k \in DOMAIN SitesOf(file)}
       /\ Len(locations) = Len(SitesOf(file))

\* export default function f() { g(css|b|); } followed by export { x }: the
\* classifier has recorded the one site and the transform has succeeded
C27_Witness ==
  \E c \in WithExports :
    /\ calls[c].file = <<"ExportDefault", "ExportList">>
    /\ Len(calls[c].modifiedCode[1].templateLiteralLocations) = 1
    /\ calls[c].transformResult.kind = "value"
    /\ calls[c].pc = "returned"

(***************************************************************************)
(* The CSS accumulated for a file.                                         *)
(***************************************************************************)
\* C28: the CSS a call has accumulated is, in the order of its calls of
\* emit, one fragment per call: the separator of two line feeds followed by
\* what the post-processor makes of the rule of the class name returned and
\* the CSS passed, which is nothing for a rule without content; so the text
\* starts with the separator and is not empty when transform returned text
C28_AccumulatedIsFragments ==
  \A c \in DOMAIN calls :
    /\ Len(calls[c].acc.emitNames) = Len(calls[c].acc.emitArgs)
    /\ calls[c].acc.cssForThisFile
         = Concat([k \in 1..Len(calls[c].acc.emitArgs) |->
                     <<"\n\n">> \o Stylis(calls[c].acc.emitNames[k],
                                          calls[c].acc.emitArgs[k])])
    /\ calls[c].transformResult.kind = "value"
         => /\ calls[c].acc.cssForThisFile # <<>>
            /\ calls[c].acc.cssForThisFile[1] = "\n\n"

\* the text css| |; css|a|; has been transformed: two fragments, the first
\* of them the separator alone
C28_Witness ==
  \E c \in Successful :
    /\ calls[c].file = <<"Empty", "Static">>
    /\ calls[c].pc = "returned"
    /\ calls[c].acc.cssForThisFile
         = <<"\n\n", "\n\n", ".">> \o ClassName(<<"a">>) \o <<"{", "a", ";}">>

(***************************************************************************)
(* The hash in the virtual id of pull mode.                                *)
(***************************************************************************)
\* the virtual ids of the module of id that a host may hold: the module id
\* with the hash x, and with the hashes the transforms of the module got
SameSource(id) == {other \in LoadIds : Stripped(other) = Stripped(id)}

\* C29: in pull mode a load of a virtual id is answered by the part of the
\* id before the question mark alone: whichever non-empty hash the id
\* carries, the answer is the text now stored for the module, so it is the
\* answer every other virtual id of the module gets, and an id carrying the
\* hash of CSS that a later transform has replaced gets the new CSS
C29_LoadIgnoresHash ==
  [][\A a \in AskedNow :
       (a.hook = "load" /\ ~opts.writeCSSFiles /\ a.id \in LoadIds)
         => /\ Stripped(a.id) \in DOMAIN cssByFile
                 => a.result = [kind |-> "text", id |-> <<>>,
                                text |-> cssByFile[Stripped(a.id)]]
            /\ \A other \in SameSource(a.id) :
                 a.result = load(opts.writeCSSFiles, cssByFile, other)
    ]_vars

\* two transforms of /w/a2.js stored different CSS one after the other, and
\* the load of the import of the first was answered with the CSS of the
\* second
C29_Witness ==
  /\ ~opts.writeCSSFiles
  /\ Len(calls) = 2 /\ Len(asked) = 1
  /\ calls[1].id = IdA /\ calls[2].id = IdA
  /\ calls[1].returned.kind = "value" /\ calls[2].returned.kind = "value"
  /\ Accumulated(calls[1]) # Accumulated(calls[2])
  /\ calls[1].cssFileName # calls[2].cssFileName
  /\ asked[1].hook = "load" /\ asked[1].id = calls[1].cssFileName
  /\ asked[1].result.kind = "text"
  /\ asked[1].result.text = Accumulated(calls[2])

(***************************************************************************)
(* The substring filter against the classifier.                            *)
(***************************************************************************)
\* C30: the filter lets through every text with a css site: a text that
\* parses and has a tagged template whose tag is the identifier css
\* contains the characters c, s, s followed by a backtick, and the call of
\* the hook on it reaches the classifier instead of returning null
C30_FilterSound ==
  \A c \in DOMAIN calls :
    (/\ Whitelisted(calls[c].id)
     /\ ~HasSyntaxError(calls[c].file)
     /\ SitesOf(calls[c].file) # <<>>)
      => /\ Includes(CodeOf(calls[c].file), <<"c", "s", "s", Backtick>>)
         /\ calls[c].parsed
         /\ calls[c].transformResult.kind # "null"
====
